---- MODULE Spec2Model ----
(***************************************************************************)
(* A model of drivers/iommu/dma-iommu.c, the DMA-API to IOMMU-API glue     *)
(* layer: the per-domain cookie, the IOVA allocator wrapper, the page,     *)
(* scatterlist and buffer mappers and the MSI doorbell remapper.           *)
(*                                                                         *)
(* Addresses are scaled: dma_addr_t, phys_addr_t and size_t are AddrBits   *)
(* wide, a CPU page is 2^PAGE_SHIFT bytes and an IOMMU granule is 2 or 4   *)
(* bytes, so that sub-granule offsets, rounding, padding and the all-ones  *)
(* error code are all within reach of the model checker.                   *)
(***************************************************************************)
EXTENDS Integers, Sequences, FiniteSets, TLC

VARIABLES domain,    \* struct iommu_domain: type, ops->pgsize_bitmap, geometry
          dev,       \* struct device: dma masks, PCI host bridge windows
          cookie,    \* domain->iova_cookie (type "NONE" when NULL)
          iovad,     \* cookie->iovad, the IOVA allocator of an IOVA cookie
          pgtable,   \* translations installed by the IOMMU driver, one per granule
          pagealloc, \* the page-frame allocator: reference count of each frame
          held,      \* mappings handed to callers and not yet given back
          last,      \* the last call: its arguments, result and pre-state
          thr        \* per-thread position of a call in flight (SpecConc)

vars == <<domain, dev, cookie, iovad, pgtable, pagealloc, held, last, thr>>

----------------------------------------------------------------------------
\* Widths and constants

AddrBits == 6
AddrSpace == 2 ^ AddrBits
PAGE_SHIFT == 2
PAGE_SIZE == 2 ^ PAGE_SHIFT
DMA_ERROR_CODE == AddrSpace - 1

EEXIST == 17
EINVAL == 22
ENOMEM == 12
EFAULT == 14
ENXIO == 6

\* Bounds of the exploration
MaxHeld == 2
NPhysPages == 3

----------------------------------------------------------------------------
\* Arithmetic helpers

Min(a, b) == IF a < b THEN a ELSE b
Max(a, b) == IF a > b THEN a ELSE b

RECURSIVE BitAnd(_, _)
BitAnd(a, b) ==
    IF a = 0 \/ b = 0 THEN 0
    ELSE (a % 2) * (b % 2) + 2 * BitAnd(a \div 2, b \div 2)

\* index of the least significant set bit (x # 0)
RECURSIVE __ffs(_)
__ffs(x) == IF x % 2 = 1 THEN 0 ELSE 1 + __ffs(x \div 2)

\* index of the most significant set bit (x # 0)
RECURSIVE __fls(_)
__fls(x) == IF x <= 1 THEN 0 ELSE 1 + __fls(x \div 2)

\* 1UL << fls_long(n - 1), for n >= 1
roundup_pow_of_two(n) == IF n <= 1 THEN 1 ELSE 2 ^ (__fls(n - 1) + 1)

ALIGN(x, a) == ((x + a - 1) \div a) * a
PAGE_ALIGN(x) == ALIGN(x, PAGE_SIZE)
CeilDiv(a, b) == IF a % b = 0 THEN a \div b ELSE a \div b + 1
IS_ALIGNED(x, a) == x % a = 0

----------------------------------------------------------------------------
\* include/linux/iova.h and drivers/iommu/iova.c: the backing allocator

NoIova == [pfn_lo |-> -1, pfn_hi |-> -1]

iova_shift(iovad_) == __ffs(iovad_.granule)
iova_mask(iovad_) == iovad_.granule - 1
iova_offset(iovad_, iova) == BitAnd(iova, iova_mask(iovad_))
iova_align(iovad_, size) == ALIGN(size, iovad_.granule)
iova_dma_addr(iovad_, iova) == (iova.pfn_lo * iovad_.granule) % AddrSpace
iova_pfn(iovad_, iova) == iova \div (2 ^ iova_shift(iovad_))
iova_size(iova) == iova.pfn_hi - iova.pfn_lo + 1

Overlaps(a, b) == a.pfn_lo <= b.pfn_hi /\ b.pfn_lo <= a.pfn_hi

ZeroIovad == [granule |-> 0, start_pfn |-> 0, dma_32bit_pfn |-> 0, rbroot |-> {}]

init_iova_domain(granule, start_pfn, pfn_32bit) ==
    [granule |-> granule, start_pfn |-> start_pfn,
     dma_32bit_pfn |-> pfn_32bit, rbroot |-> {}]

\* The intervals alloc_iova may return: NoIova (no room, or no memory for the
\* node), or any free run of size pfns within [start_pfn, limit_pfn] whose
\* start is aligned to the power-of-two round-up of its size when size_aligned.
alloc_iova(iovad_, size, limit_pfn, size_aligned) ==
    {NoIova} \cup
    { [pfn_lo |-> lo, pfn_hi |-> lo + size - 1] :
        lo \in { l \in iovad_.start_pfn .. limit_pfn :
                   /\ l + size - 1 <= limit_pfn
                   /\ size_aligned => l % roundup_pow_of_two(size) = 0
                   /\ \A n \in iovad_.rbroot :
                          ~Overlaps(n, [pfn_lo |-> l, pfn_hi |-> l + size - 1]) } }

InsertIova(iovad_, iova) == [iovad_ EXCEPT !.rbroot = @ \cup {iova}]

__free_iova(iovad_, iova) == [iovad_ EXCEPT !.rbroot = @ \ {iova}]

\* find_iova forgetting how large the interval was: one page at pfn
find_iova_one_pfn(iovad_, pfn) ==
    IF \E n \in iovad_.rbroot : n.pfn_lo <= pfn /\ pfn <= n.pfn_hi
    THEN [pfn_lo |-> pfn, pfn_hi |-> pfn] ELSE NoIova

find_iova(iovad_, pfn) ==
    LET hit == { n \in iovad_.rbroot : n.pfn_lo <= pfn /\ pfn <= n.pfn_hi }
    IN IF hit = {} THEN NoIova ELSE CHOOSE n \in hit : TRUE

\* reserve_iova: the range joins the tree, merged with any node it overlaps
reserve_iova(iovad_, lo, hi) ==
    LET new == [pfn_lo |-> lo, pfn_hi |-> hi]
        hit == { n \in iovad_.rbroot : Overlaps(n, new) }
        lows == { n.pfn_lo : n \in hit } \cup {lo}
        highs == { n.pfn_hi : n \in hit } \cup {hi}
        merged == [pfn_lo |-> CHOOSE x \in lows : \A y \in lows : x <= y,
                   pfn_hi |-> CHOOSE x \in highs : \A y \in highs : x >= y]
    IN [iovad_ EXCEPT !.rbroot = (@ \ hit) \cup {merged}]

----------------------------------------------------------------------------
\* drivers/iommu/iommu.c: the low-level programmer.  pgtable holds one entry
\* [iova, paddr, prot] per installed granule.

min_pagesz == 2 ^ __ffs(domain.pgsize_bitmap)

Granules(size) == 0 .. (size \div min_pagesz) - 1

Mapped(pt, iova) == \E e \in pt : e.iova = iova

NewEntries(iova, paddr, size, prot) ==
    { [iova |-> iova + k * min_pagesz, paddr |-> paddr + k * min_pagesz,
       prot |-> prot] : k \in Granules(size) }

\* iommu_map: -EINVAL on a misaligned request, an error when the driver cannot
\* install (no memory, or a translation is already there), else 0 with the
\* whole range installed.  A failed call leaves nothing of its own installed.
iommu_map(pt, iova, paddr, size, prot) ==
    {[ret |-> -ENOMEM, pgtable |-> pt]} \cup
    IF /\ IS_ALIGNED(iova, min_pagesz) /\ IS_ALIGNED(paddr, min_pagesz)
       /\ IS_ALIGNED(size, min_pagesz)
       /\ \A k \in Granules(size) : ~Mapped(pt, iova + k * min_pagesz)
    THEN {[ret |-> 0, pgtable |-> pt \cup NewEntries(iova, paddr, size, prot)]}
    ELSE {[ret |-> -EINVAL, pgtable |-> pt]}

\* iommu_unmap: uninstalls granule by granule from iova until size bytes are
\* done or a granule with no translation is met; returns the bytes uninstalled.
RECURSIVE UnmapRun(_, _, _)
UnmapRun(pt, iova, size) ==
    IF size = 0 \/ ~Mapped(pt, iova) THEN 0
    ELSE min_pagesz + UnmapRun(pt, iova + min_pagesz, size - min_pagesz)

iommu_unmap(pt, iova, size) ==
    LET n == IF IS_ALIGNED(iova, min_pagesz) /\ IS_ALIGNED(size, min_pagesz)
             THEN UnmapRun(pt, iova, size) ELSE 0
    IN [unmapped |-> n,
        pgtable |-> { e \in pt : ~(iova <= e.iova /\ e.iova < iova + n) }]

----------------------------------------------------------------------------
\* The configurations explored: the domain's type, page sizes and geometry,
\* and the device's DMA masks and PCI host bridge windows.

Domain(type, bitmap, force) ==
    [type |-> type, pgsize_bitmap |-> bitmap, force_aperture |-> force,
     aperture_start |-> 8, aperture_end |-> 23]

\* resource windows of the host bridge: [start - offset, end - offset] in bus
\* addresses; the third is neither memory nor I/O
BridgeWindows ==
    << [type |-> "IORESOURCE_MEM", start |-> 9, end |-> 14, offset |-> 1],
       [type |-> "IORESOURCE_IO", start |-> 12, end |-> 15, offset |-> 0],
       [type |-> "IORESOURCE_BUS", start |-> 24, end |-> 27, offset |-> 0] >>

Device(mask, pci) ==
    [dma_mask |-> mask, coherent_dma_mask |-> mask, is_pci |-> pci,
     windows |-> IF pci THEN BridgeWindows ELSE <<>>]

\* <<domain, device>> pairs with a DMA domain: granule 4 or 2, with and
\* without a forced aperture, behind a PCI host bridge or not
DmaConfigs ==
    { <<Domain("IOMMU_DOMAIN_DMA", 4, FALSE), Device(31, TRUE)>>,
      <<Domain("IOMMU_DOMAIN_DMA", 4, TRUE), Device(31, FALSE)>>,
      <<Domain("IOMMU_DOMAIN_DMA", 6, FALSE), Device(15, FALSE)>>,
      <<Domain("IOMMU_DOMAIN_DMA", 6, TRUE), Device(15, TRUE)>> }

\* [phys, size] requests: one aligned granule, a short unaligned region, an
\* unaligned region that crosses a granule boundary
MapRequests ==
    { [phys |-> 40, size |-> 4], [phys |-> 41, size |-> 1],
      [phys |-> 43, size |-> 5] }

----------------------------------------------------------------------------
\* The record of the last call

NoPrev == [op |-> "none", ok |-> FALSE, ret |-> 0, iova |-> NoIova, pre |-> {}]

\* op and ret: the call and what it returned; ok: it succeeded; phys, size,
\* handle: its arguments; alloc_size, dma_limit and iova: the request it made
\* to __alloc_iova and the interval it got; pre: the allocator's intervals
\* before the call; prev: the call before it (kept by the unmap calls)
\* sg_in, sg_out: a scatterlist before and after the call; stage: the step a
\* failed call failed at; pages, comp: a buffer's page array and whether
\* __GFP_COMP was asked for; pre_pa, pre_pt: the page frames and the
\* translations before the call; flushed: the frames flush_page was called on;
\* prot: the IOMMU_* flags of the call; events: the flush_page and iommu_map_sg
\* calls the call made, in the order it made them; again: the call is an unmap
\* of the address the unmap before it was given;
\* msg_in, msg_out: an MSI message before and after the call; pre_cookie: the
\* cookie before the call; doorbells: the [granule, iova] of every doorbell
\* the cookie has handed out; known: the addresses handed out before the call
\* for the granule the call asks for
NoCall == [op |-> "none", ok |-> FALSE, ret |-> 0, phys |-> 0, size |-> 0,
           handle |-> 0, alloc_size |-> 0, dma_limit |-> 0, iova |-> NoIova,
           pre |-> {}, prev |-> NoPrev, sg_in |-> <<>>, sg_out |-> <<>>,
           stage |-> "none", pages |-> <<>>, comp |-> FALSE, pre_pa |-> <<>>,
           pre_pt |-> {}, flushed |-> {}, msg_in |-> <<>>, msg_out |-> <<>>,
           pre_cookie |-> <<>>, known |-> {}, doorbells |-> {},
           pre_iovad |-> ZeroIovad, prot |-> {}, events |-> <<>>,
           again |-> FALSE]

Call(op, ret) ==
    [NoCall EXCEPT !.op = op, !.ret = ret, !.ok = (ret = 0), !.pre = iovad.rbroot,
                   !.doorbells = last.doorbells]

PrevOf(l) == [op |-> l.op, ok |-> l.ok, ret |-> l.ret, iova |-> l.iova, pre |-> l.pre]

NoThreads == <<>>

----------------------------------------------------------------------------
\* Cookie management (dma-iommu.c:34-167)

NoCookie == [type |-> "NONE", msi_iova |-> 0, msi_page_list |-> <<>>]

cookie_alloc(type) ==
    [type |-> type, msi_iova |-> 0, msi_page_list |-> <<>>]

cookie_msi_granule(cookie_, iovad_) ==
    IF cookie_.type = "IOMMU_DMA_IOVA_COOKIE" THEN iovad_.granule ELSE PAGE_SIZE

\* cookie_iovad(domain) # NULL
cookie_iovad(cookie_) == cookie_.type = "IOMMU_DMA_IOVA_COOKIE"

\* iommu_get_dma_cookie attaching a new cookie over the one the domain has
get_dma_cookie_replacing ==
    \E nomem \in BOOLEAN :
      /\ cookie' = IF nomem THEN NoCookie
                   ELSE cookie_alloc("IOMMU_DMA_IOVA_COOKIE")
      /\ iovad' = ZeroIovad
      /\ last' = Call("get_dma_cookie", IF nomem THEN -ENOMEM ELSE 0)
      /\ UNCHANGED <<domain, dev, pgtable, pagealloc, held, thr>>

iommu_get_dma_cookie ==
    IF cookie.type # "NONE"
    THEN /\ last' = Call("get_dma_cookie", -EEXIST)
         /\ UNCHANGED <<domain, dev, cookie, iovad, pgtable, pagealloc, held, thr>>
    ELSE \E nomem \in BOOLEAN :
           /\ cookie' = IF nomem THEN NoCookie
                        ELSE cookie_alloc("IOMMU_DMA_IOVA_COOKIE")
           /\ iovad' = ZeroIovad
           /\ last' = Call("get_dma_cookie", IF nomem THEN -ENOMEM ELSE 0)
           /\ UNCHANGED <<domain, dev, pgtable, pagealloc, held, thr>>

MsiBases == {16}

iommu_get_msi_cookie(base) ==
    IF domain.type # "IOMMU_DOMAIN_UNMANAGED"
    THEN /\ last' = Call("get_msi_cookie", -EINVAL)
         /\ UNCHANGED <<domain, dev, cookie, iovad, pgtable, pagealloc, held, thr>>
    ELSE IF cookie.type # "NONE"
    THEN /\ last' = Call("get_msi_cookie", -EEXIST)
         /\ UNCHANGED <<domain, dev, cookie, iovad, pgtable, pagealloc, held, thr>>
    ELSE \E nomem \in BOOLEAN :
           /\ cookie' = IF nomem THEN NoCookie
                        ELSE [cookie_alloc("IOMMU_DMA_MSI_COOKIE")
                                EXCEPT !.msi_iova = base]
           /\ iovad' = ZeroIovad
           /\ last' = Call("get_msi_cookie", IF nomem THEN -ENOMEM ELSE 0)
           /\ UNCHANGED <<domain, dev, pgtable, pagealloc, held, thr>>

\* iommu_put_dma_cookie freeing the cookie and leaving domain->iova_cookie set
put_dma_cookie_dangling ==
    /\ held = {}
    /\ \A t \in DOMAIN thr : thr[t].pc = "idle"
    /\ cookie' = [cookie EXCEPT !.msi_page_list = <<>>]
    /\ iovad' = ZeroIovad
    /\ pgtable' = {}
    /\ last' = [Call("put_dma_cookie", 0) EXCEPT !.doorbells = {},
                  !.pre_cookie = cookie]
    /\ UNCHANGED <<domain, dev, pagealloc, held, thr>>

\* iommu_put_dma_cookie, called from the driver's domain_free callback once
\* every mapping has been given back; the callback frees the page table of
\* the domain, doorbell translations included.
iommu_put_dma_cookie ==
    /\ held = {}
    /\ \A t \in DOMAIN thr : thr[t].pc = "idle"
    /\ IF cookie.type = "NONE"
       THEN /\ last' = [Call("put_dma_cookie", 0) EXCEPT !.pre_cookie = cookie]
            /\ UNCHANGED <<cookie, iovad, pgtable>>
       ELSE /\ cookie' = NoCookie
            /\ iovad' = ZeroIovad
            /\ pgtable' = {}
            /\ last' = [Call("put_dma_cookie", 0) EXCEPT !.doorbells = {},
                          !.pre_cookie = cookie]
    /\ UNCHANGED <<domain, dev, pagealloc, held, thr>>

----------------------------------------------------------------------------
\* Domain initialisation (dma-iommu.c:170-245)

RECURSIVE ReserveWindows(_, _, _)
ReserveWindows(iovad_, windows, k) ==
    IF k > Len(windows) THEN iovad_
    ELSE LET w == windows[k]
             lo == iova_pfn(iovad_, w.start - w.offset)
             hi == iova_pfn(iovad_, w.end - w.offset)
         IN IF w.type # "IORESOURCE_MEM" /\ w.type # "IORESOURCE_IO"
            THEN ReserveWindows(iovad_, windows, k + 1)
            ELSE ReserveWindows(reserve_iova(iovad_, lo, hi), windows, k + 1)

iova_reserve_pci_windows(windows, iovad_) == ReserveWindows(iovad_, windows, 1)

\* init_domain_result setting up an existing domain like a new one
init_domain_again(base, size) ==
    LET order == __ffs(domain.pgsize_bitmap)
        base_pfn0 == Max(1, base \div 2 ^ order)
        end_pfn0 == (base + size - 1) \div 2 ^ order
        base_pfn == IF domain.force_aperture
                    THEN Max(base_pfn0, domain.aperture_start \div 2 ^ order)
                    ELSE base_pfn0
        end_pfn == IF domain.force_aperture
                   THEN Min(end_pfn0, domain.aperture_end \div 2 ^ order)
                   ELSE end_pfn0
    IN IF cookie.type # "IOMMU_DMA_IOVA_COOKIE"
       THEN [ret |-> -EINVAL, iovad |-> iovad]
       ELSE IF /\ domain.force_aperture
               /\ \/ base > domain.aperture_end
                  \/ base + size <= domain.aperture_start
       THEN [ret |-> -EFAULT, iovad |-> iovad]
       ELSE [ret |-> 0,
             iovad |-> [iovad EXCEPT !.granule = 2 ^ order,
                                     !.start_pfn = base_pfn,
                                     !.dma_32bit_pfn = end_pfn]]

\* [ret, iovad]: the result of iommu_dma_init_domain(domain, base, size, dev)
\* init_domain_result without the test of the cookie
init_domain_any_cookie(base, size) ==
    LET order == __ffs(domain.pgsize_bitmap)
        base_pfn == Max(1, base \div 2 ^ order)
        end_pfn == (base + size - 1) \div 2 ^ order
        fresh == init_iova_domain(2 ^ order, base_pfn, end_pfn)
    IN [ret |-> 0,
        iovad |-> IF dev.is_pci
                  THEN iova_reserve_pci_windows(dev.windows, fresh)
                  ELSE fresh]

\* init_domain_result taking base >> order as the first page, page 0 included
init_domain_from_base_pfn(base, size) ==
    LET order == __ffs(domain.pgsize_bitmap)
        base_pfn0 == base \div 2 ^ order
        end_pfn0 == (base + size - 1) \div 2 ^ order
        base_pfn == IF domain.force_aperture
                    THEN Max(base_pfn0, domain.aperture_start \div 2 ^ order)
                    ELSE base_pfn0
        end_pfn == IF domain.force_aperture
                   THEN Min(end_pfn0, domain.aperture_end \div 2 ^ order)
                   ELSE end_pfn0
    IN IF cookie.type # "IOMMU_DMA_IOVA_COOKIE"
       THEN [ret |-> -EINVAL, iovad |-> iovad]
       ELSE IF /\ domain.force_aperture
               /\ \/ base > domain.aperture_end
                  \/ base + size <= domain.aperture_start
       THEN [ret |-> -EFAULT, iovad |-> iovad]
       ELSE IF iovad.granule # 0
       THEN IF \/ 2 ^ order # iovad.granule
               \/ base_pfn # iovad.start_pfn
               \/ end_pfn < iovad.dma_32bit_pfn
            THEN [ret |-> -EFAULT, iovad |-> iovad]
            ELSE [ret |-> 0, iovad |-> [iovad EXCEPT !.dma_32bit_pfn = end_pfn]]
       ELSE LET fresh == init_iova_domain(2 ^ order, base_pfn, end_pfn)
            IN [ret |-> 0,
                iovad |-> IF dev.is_pci
                          THEN iova_reserve_pci_windows(dev.windows, fresh)
                          ELSE fresh]

init_domain_result(base, size) ==
    LET order == __ffs(domain.pgsize_bitmap)
        base_pfn0 == Max(1, base \div 2 ^ order)
        end_pfn0 == (base + size - 1) \div 2 ^ order
        base_pfn == IF domain.force_aperture
                    THEN Max(base_pfn0, domain.aperture_start \div 2 ^ order)
                    ELSE base_pfn0
        end_pfn == IF domain.force_aperture
                   THEN Min(end_pfn0, domain.aperture_end \div 2 ^ order)
                   ELSE end_pfn0
    IN IF cookie.type # "IOMMU_DMA_IOVA_COOKIE"
       THEN [ret |-> -EINVAL, iovad |-> iovad]
       ELSE IF /\ domain.force_aperture
               /\ \/ base > domain.aperture_end
                  \/ base + size <= domain.aperture_start
       THEN [ret |-> -EFAULT, iovad |-> iovad]
       ELSE IF iovad.start_pfn # 0
       THEN IF \/ 2 ^ order # iovad.granule
               \/ base_pfn # iovad.start_pfn
               \/ end_pfn < iovad.dma_32bit_pfn
            THEN [ret |-> -EFAULT, iovad |-> iovad]
            ELSE [ret |-> 0, iovad |-> [iovad EXCEPT !.dma_32bit_pfn = end_pfn]]
       ELSE LET fresh == init_iova_domain(2 ^ order, base_pfn, end_pfn)
            IN [ret |-> 0,
                iovad |-> IF dev.is_pci
                          THEN iova_reserve_pci_windows(dev.windows, fresh)
                          ELSE fresh]

InitBases == {0, 8}
InitSizes == {16, 24}

iommu_dma_init_domain(base, size) ==
    LET r == init_domain_result(base, size)
    IN /\ iovad' = r.iovad
       /\ last' = [Call("init_domain", r.ret) EXCEPT !.phys = base, !.size = size,
                                                    !.pre_iovad = iovad]
       /\ UNCHANGED <<domain, dev, cookie, pgtable, pagealloc, held, thr>>

----------------------------------------------------------------------------
\* dma_direction_to_prot (dma-iommu.c:254-268)

dma_direction_to_prot(dir, coherent) ==
    LET prot == IF coherent THEN {"IOMMU_CACHE"} ELSE {}
    IN CASE dir = "DMA_BIDIRECTIONAL" -> prot \cup {"IOMMU_READ", "IOMMU_WRITE"}
         [] dir = "DMA_TO_DEVICE" -> prot \cup {"IOMMU_READ"}
         [] dir = "DMA_FROM_DEVICE" -> prot \cup {"IOMMU_WRITE"}
         [] OTHER -> {}

----------------------------------------------------------------------------
\* The allocator wrapper and the common unmap path (dma-iommu.c:270-303)

\* __alloc_iova with the request truncated to whole granules instead of
\* rounded up
alloc_iova_truncating(iovad_, size, dma_limit) ==
    LET shift == iova_shift(iovad_)
        length == size \div 2 ^ shift
        limit == IF domain.force_aperture
                 THEN Min(dma_limit, domain.aperture_end)
                 ELSE dma_limit
    IN alloc_iova(iovad_, length, limit \div 2 ^ shift, TRUE)

\* __alloc_iova passing the device's limit on, whatever the aperture
alloc_iova_ignoring_aperture(iovad_, size, dma_limit) ==
    LET shift == iova_shift(iovad_)
        length == iova_align(iovad_, size) \div 2 ^ shift
    IN alloc_iova(iovad_, length, dma_limit \div 2 ^ shift, TRUE)

\* the intervals __alloc_iova(domain, size, dma_limit) may return
__alloc_iova(iovad_, size, dma_limit) ==
    LET shift == iova_shift(iovad_)
        length == iova_align(iovad_, size) \div 2 ^ shift
        limit == IF domain.force_aperture
                 THEN Min(dma_limit, domain.aperture_end)
                 ELSE dma_limit
    IN alloc_iova(iovad_, length, limit \div 2 ^ shift, TRUE)

\* __iommu_dma_unmap handing the caller's address to iommu_unmap as it came,
\* sub-granule offset included
unmap_unmasked(iovad_, pt, dma_addr) ==
    LET shift == iova_shift(iovad_)
        pfn == dma_addr \div 2 ^ shift
        iova == find_iova(iovad_, pfn)
        size == iova_size(iova) * 2 ^ shift
        u == iommu_unmap(pt, dma_addr, size)
    IN IF iova = NoIova
       THEN [found |-> FALSE, left |-> 0, iovad |-> iovad_, pgtable |-> pt]
       ELSE [found |-> TRUE, left |-> size - u.unmapped,
             iovad |-> __free_iova(iovad_, iova), pgtable |-> u.pgtable]

\* __iommu_dma_unmap uninstalling one granule, whatever the interval's size
unmap_one_granule(iovad_, pt, dma_addr) ==
    LET shift == iova_shift(iovad_)
        pfn == dma_addr \div 2 ^ shift
        iova == find_iova(iovad_, pfn)
        size == 2 ^ shift
        u == iommu_unmap(pt, pfn * 2 ^ shift, size)
    IN IF iova = NoIova
       THEN [found |-> FALSE, left |-> 0, iovad |-> iovad_, pgtable |-> pt]
       ELSE [found |-> TRUE, left |-> size - u.unmapped,
             iovad |-> __free_iova(iovad_, iova), pgtable |-> u.pgtable]

\* [found, left, iovad, pgtable]: the effect of __iommu_dma_unmap(domain, dma_addr);
\* left is what the WARN_ON(size > 0) tests
__iommu_dma_unmap(iovad_, pt, dma_addr) ==
    LET shift == iova_shift(iovad_)
        pfn == dma_addr \div 2 ^ shift
        iova == find_iova(iovad_, pfn)
        size == iova_size(iova) * 2 ^ shift
        u == iommu_unmap(pt, pfn * 2 ^ shift, size)
    IN IF iova = NoIova
       THEN [found |-> FALSE, left |-> 0, iovad |-> iovad_, pgtable |-> pt]
       ELSE [found |-> TRUE, left |-> size - u.unmapped,
             iovad |-> __free_iova(iovad_, iova), pgtable |-> u.pgtable]

----------------------------------------------------------------------------
\* Single-region mapping (dma-iommu.c:481-507)

Attached == cookie.type = "IOMMU_DMA_IOVA_COOKIE" /\ iovad.granule # 0

Holding(kind, handle, size) ==
    [kind |-> kind, handle |-> handle, size |-> size, pages |-> <<>>, sg |-> <<>>,
     iova |-> NoIova]

\* [ok, ret, iova, len, iovad, pgtable]: the outcomes of iommu_dma_map_page for the
\* physical address phys = page_to_phys(page) + offset
\* map_page_outcomes returning the start of the interval
map_page_returning_base(phys, size, prot) ==
    LET iova_off == iova_offset(iovad, phys)
        len == iova_align(iovad, size + iova_off)
    IN UNION { IF iova = NoIova
               THEN {[ok |-> FALSE, ret |-> DMA_ERROR_CODE, iova |-> NoIova,
                      len |-> len, iovad |-> iovad, pgtable |-> pgtable]}
               ELSE LET dma_addr == iova_dma_addr(iovad, iova)
                        got == InsertIova(iovad, iova)
                    IN { IF m.ret # 0
                         THEN [ok |-> FALSE, ret |-> DMA_ERROR_CODE, iova |-> iova,
                               len |-> len, iovad |-> __free_iova(got, iova),
                               pgtable |-> m.pgtable]
                         ELSE [ok |-> TRUE, ret |-> dma_addr,
                               iova |-> iova, len |-> len,
                               iovad |-> got, pgtable |-> m.pgtable] :
                         m \in iommu_map(pgtable, dma_addr, phys - iova_off,
                                         len, prot) } :
               iova \in __alloc_iova(iovad, len, dev.dma_mask) }

map_page_outcomes(phys, size, prot) ==
    LET iova_off == iova_offset(iovad, phys)
        len == iova_align(iovad, size + iova_off)
    IN UNION { IF iova = NoIova
               THEN {[ok |-> FALSE, ret |-> DMA_ERROR_CODE, iova |-> NoIova,
                      len |-> len, iovad |-> iovad, pgtable |-> pgtable]}
               ELSE LET dma_addr == iova_dma_addr(iovad, iova)
                        got == InsertIova(iovad, iova)
                    IN { IF m.ret # 0
                         THEN [ok |-> FALSE, ret |-> DMA_ERROR_CODE, iova |-> iova,
                               len |-> len, iovad |-> __free_iova(got, iova),
                               pgtable |-> m.pgtable]
                         ELSE [ok |-> TRUE, ret |-> (dma_addr + iova_off) % AddrSpace,
                               iova |-> iova, len |-> len,
                               iovad |-> got, pgtable |-> m.pgtable] :
                         m \in iommu_map(pgtable, dma_addr, phys - iova_off,
                                         len, prot) } :
               iova \in __alloc_iova(iovad, len, dev.dma_mask) }

iommu_dma_map_page(phys, size, prot) ==
    /\ Attached
    /\ Cardinality(held) < MaxHeld
    /\ \E o \in map_page_outcomes(phys, size, prot) :
         /\ iovad' = o.iovad
         /\ pgtable' = o.pgtable
         /\ held' = IF o.ok THEN held \cup {Holding("page", o.ret, size)}
                    ELSE held
         /\ last' = [Call("map_page", o.ret) EXCEPT !.ok = o.ok, !.phys = phys,
                       !.size = size, !.alloc_size = o.len,
                       !.dma_limit = dev.dma_mask, !.iova = o.iova]
    /\ UNCHANGED <<domain, dev, cookie, pagealloc, thr>>

iommu_dma_unmap_page(h) ==
    /\ Attached
    /\ h \in held /\ h.kind = "page"
    /\ LET u == __iommu_dma_unmap(iovad, pgtable, h.handle)
       IN /\ iovad' = u.iovad
          /\ pgtable' = u.pgtable
          /\ last' = [Call("unmap_page", 0) EXCEPT !.handle = h.handle,
                        !.prev = PrevOf(last)]
    /\ held' = held \ {h}
    /\ UNCHANGED <<domain, dev, cookie, pagealloc, thr>>

----------------------------------------------------------------------------

\* Scatterlist mapping (dma-iommu.c:509-633).  A segment is
\* [page, offset, length, dma_address, dma_length].

sg_phys(s) == s.page * PAGE_SIZE + s.offset

\* iommu_map_sg (default_iommu_map_sg): the segments are installed back to
\* back from iova; a segment off the minimum page size, or one iommu_map
\* refuses, makes the call undo what it installed and return 0
RECURSIVE SgEntries(_, _, _, _)
SgEntries(sg, i, iova, prot) ==
    IF i > Len(sg) THEN {}
    ELSE NewEntries(iova, sg_phys(sg[i]), sg[i].length, prot)
           \cup SgEntries(sg, i + 1, iova + sg[i].length, prot)

RECURSIVE SgTotal(_, _)
SgTotal(sg, i) == IF i > Len(sg) THEN 0 ELSE sg[i].length + SgTotal(sg, i + 1)

iommu_map_sg(pt, iova, sg, prot) ==
    {[mapped |-> 0, pgtable |-> pt]} \cup
    IF /\ IS_ALIGNED(iova, min_pagesz)
       /\ \A i \in 1 .. Len(sg) : /\ IS_ALIGNED(sg[i].offset, min_pagesz)
                                  /\ IS_ALIGNED(sg_phys(sg[i]), min_pagesz)
                                  /\ IS_ALIGNED(sg[i].length, min_pagesz)
       /\ \A e \in SgEntries(sg, 1, iova, prot) : ~Mapped(pt, e.iova)
    THEN {[mapped |-> SgTotal(sg, 1),
           pgtable |-> pt \cup SgEntries(sg, 1, iova, prot)]}
    ELSE {}

\* __finalise_sg advancing by the segment's original length
RECURSIVE finalise_by_orig_length(_, _, _)
finalise_by_orig_length(sg, i, dma_addr) ==
    IF i > Len(sg) THEN sg
    ELSE LET s == sg[i]
             s_offset == s.dma_address
             s_length == s.dma_length
         IN finalise_by_orig_length(
              [sg EXCEPT ![i] = [s EXCEPT !.offset = @ + s_offset,
                                          !.length = s_length,
                                          !.dma_address = (dma_addr + s_offset) % AddrSpace]],
              i + 1, (dma_addr + s_length) % AddrSpace)

\* __finalise_sg writing the device address and leaving offset and length as
\* the first loop left them
RECURSIVE finalise_keeping_swizzle(_, _, _)
finalise_keeping_swizzle(sg, i, dma_addr) ==
    IF i > Len(sg) THEN sg
    ELSE LET s == sg[i]
         IN finalise_keeping_swizzle(
              [sg EXCEPT ![i] = [s EXCEPT !.dma_address =
                                            (dma_addr + s.dma_address) % AddrSpace]],
              i + 1, (dma_addr + s.length) % AddrSpace)

\* __finalise_sg giving every segment the base of the interval, without
\* advancing by the segment's granules
RECURSIVE finalise_same_base(_, _, _)
finalise_same_base(sg, i, dma_addr) ==
    IF i > Len(sg) THEN sg
    ELSE LET s == sg[i]
         IN finalise_same_base(
              [sg EXCEPT ![i] = [s EXCEPT !.offset = @ + s.dma_address,
                                          !.length = s.dma_length,
                                          !.dma_address =
                                            (dma_addr + s.dma_address) % AddrSpace]],
              i + 1, dma_addr)

\* __finalise_sg(dev, sg, nents, dma_addr), from segment i on
RECURSIVE __finalise_sg(_, _, _)
__finalise_sg(sg, i, dma_addr) ==
    IF i > Len(sg) THEN sg
    ELSE LET s == sg[i]
             s_offset == s.dma_address
             s_length == s.dma_length
             s_dma_len == s.length
         IN __finalise_sg(
              [sg EXCEPT ![i] = [s EXCEPT !.offset = @ + s_offset,
                                          !.length = s_length,
                                          !.dma_address = (dma_addr + s_offset) % AddrSpace]],
              i + 1, (dma_addr + s_dma_len) % AddrSpace)

\* __invalidate_sg setting the offset to the stashed value instead of adding it
invalidate_sg_set_offset(sg) ==
    [i \in 1 .. Len(sg) |->
        LET s == sg[i]
        IN [s EXCEPT !.offset = IF s.dma_address # DMA_ERROR_CODE
                                THEN s.dma_address ELSE @,
                     !.length = IF s.dma_length # 0 THEN s.dma_length ELSE @,
                     !.dma_address = DMA_ERROR_CODE,
                     !.dma_length = 0]]

\* __invalidate_sg restoring offset and length and leaving the stashed values
\* in the DMA fields
invalidate_sg_keep_dma(sg) ==
    [i \in 1 .. Len(sg) |->
        LET s == sg[i]
        IN [s EXCEPT !.offset = IF s.dma_address # DMA_ERROR_CODE
                                THEN @ + s.dma_address ELSE @,
                     !.length = IF s.dma_length # 0 THEN s.dma_length ELSE @]]

\* __invalidate_sg(sg, nents)
__invalidate_sg(sg) ==
    [i \in 1 .. Len(sg) |->
        LET s == sg[i]
        IN [s EXCEPT !.offset = IF s.dma_address # DMA_ERROR_CODE
                                THEN @ + s.dma_address ELSE @,
                     !.length = IF s.dma_length # 0 THEN s.dma_length ELSE @,
                     !.dma_address = DMA_ERROR_CODE,
                     !.dma_length = 0]]

\* the first loop of iommu_dma_map_sg padding each segment to its own size
RECURSIVE first_pass_pad_own_size(_, _, _)
first_pass_pad_own_size(sg, i, iova_len) ==
    IF i > Len(sg) THEN [sg |-> sg, iova_len |-> iova_len]
    ELSE LET s == sg[i]
             s_offset == iova_offset(iovad, s.offset)
             s_length == iova_align(iovad, s.length + s_offset)
             p2 == roundup_pow_of_two(s_length)
             pad_len == IF i > 1
                        THEN BitAnd((p2 - s_length) % AddrSpace, (p2 - 1) % AddrSpace)
                        ELSE 0
             sg1 == [sg EXCEPT ![i] = [s EXCEPT !.dma_address = s_offset,
                                                !.dma_length = s.length,
                                                !.offset = @ - s_offset,
                                                !.length = s_length]]
             sg2 == IF i > 1 THEN [sg1 EXCEPT ![i - 1].length = @ + pad_len]
                    ELSE sg1
         IN first_pass_pad_own_size(sg2, i + 1,
                                    (iova_len + pad_len + s_length) % AddrSpace)

\* sg_first_pass padding by (P - running total mod P), a whole P when the
\* running total is a multiple of P already
RECURSIVE first_pass_pad_whole_block(_, _, _)
first_pass_pad_whole_block(sg, i, iova_len) ==
    IF i > Len(sg) THEN [sg |-> sg, iova_len |-> iova_len]
    ELSE LET s == sg[i]
             s_offset == iova_offset(iovad, s.offset)
             s_length == iova_align(iovad, s.length + s_offset)
             p2 == roundup_pow_of_two(s_length)
             pad_len == IF i > 1 THEN p2 - (iova_len % p2) ELSE 0
             sg1 == [sg EXCEPT ![i] = [s EXCEPT !.dma_address = s_offset,
                                                !.dma_length = s.length,
                                                !.offset = @ - s_offset,
                                                !.length = s_length]]
             sg2 == IF i > 1 THEN [sg1 EXCEPT ![i - 1].length = @ + pad_len]
                    ELSE sg1
         IN first_pass_pad_whole_block(sg2, i + 1,
                                       (iova_len + pad_len + s_length) % AddrSpace)

\* sg_first_pass without padding of the previous segment
RECURSIVE first_pass_unpadded(_, _, _)
first_pass_unpadded(sg, i, iova_len) ==
    IF i > Len(sg) THEN [sg |-> sg, iova_len |-> iova_len]
    ELSE LET s == sg[i]
             s_offset == iova_offset(iovad, s.offset)
             s_length == iova_align(iovad, s.length + s_offset)
             sg1 == [sg EXCEPT ![i] = [s EXCEPT !.dma_address = s_offset,
                                                !.dma_length = s.length,
                                                !.offset = @ - s_offset,
                                                !.length = s_length]]
         IN first_pass_unpadded(sg1, i + 1, (iova_len + s_length) % AddrSpace)

\* [sg, iova_len]: the first loop of iommu_dma_map_sg from segment i on, with
\* iova_len the running total; segment i - 1 is prev
RECURSIVE sg_first_pass(_, _, _)
sg_first_pass(sg, i, iova_len) ==
    IF i > Len(sg) THEN [sg |-> sg, iova_len |-> iova_len]
    ELSE LET s == sg[i]
             s_offset == iova_offset(iovad, s.offset)
             s_length == iova_align(iovad, s.length + s_offset)
             p2 == roundup_pow_of_two(s_length)
             pad_len == IF i > 1
                        THEN BitAnd((p2 - iova_len) % AddrSpace, (p2 - 1) % AddrSpace)
                        ELSE 0
             sg1 == [sg EXCEPT ![i] = [s EXCEPT !.dma_address = s_offset,
                                                !.dma_length = s.length,
                                                !.offset = @ - s_offset,
                                                !.length = s_length]]
             sg2 == IF i > 1 THEN [sg1 EXCEPT ![i - 1].length = @ + pad_len]
                    ELSE sg1
         IN sg_first_pass(sg2, i + 1, (iova_len + pad_len + s_length) % AddrSpace)

\* map_sg_outcomes keeping the interval when iommu_map_sg falls short
map_sg_keeping_interval(sg, prot) ==
    LET fp == sg_first_pass(sg, 1, 0)
    IN UNION { IF iova = NoIova
               THEN {[ok |-> FALSE, ret |-> 0, stage |-> "alloc_iova",
                      sg |-> __invalidate_sg(fp.sg), iova |-> NoIova,
                      iova_len |-> fp.iova_len, iovad |-> iovad,
                      pgtable |-> pgtable]}
               ELSE LET dma_addr == iova_dma_addr(iovad, iova)
                        got == InsertIova(iovad, iova)
                    IN { IF m.mapped < fp.iova_len
                         THEN [ok |-> FALSE, ret |-> 0, stage |-> "iommu_map_sg",
                               sg |-> __invalidate_sg(fp.sg), iova |-> iova,
                               iova_len |-> fp.iova_len,
                               iovad |-> got,
                               pgtable |-> m.pgtable]
                         ELSE [ok |-> TRUE, ret |-> Len(sg), stage |-> "none",
                               sg |-> __finalise_sg(fp.sg, 1, dma_addr),
                               iova |-> iova, iova_len |-> fp.iova_len,
                               iovad |-> got, pgtable |-> m.pgtable] :
                         m \in iommu_map_sg(pgtable, dma_addr, fp.sg, prot) } :
               iova \in __alloc_iova(iovad, fp.iova_len, dev.dma_mask) }

\* [ok, ret, stage, sg, iova, iova_len, iovad, pgtable]: the outcomes of
\* iommu_dma_map_sg(dev, sg, nents, prot)
map_sg_outcomes(sg, prot) ==
    LET fp == sg_first_pass(sg, 1, 0)
    IN UNION { IF iova = NoIova
               THEN {[ok |-> FALSE, ret |-> 0, stage |-> "alloc_iova",
                      sg |-> __invalidate_sg(fp.sg), iova |-> NoIova,
                      iova_len |-> fp.iova_len, iovad |-> iovad,
                      pgtable |-> pgtable]}
               ELSE LET dma_addr == iova_dma_addr(iovad, iova)
                        got == InsertIova(iovad, iova)
                    IN { IF m.mapped < fp.iova_len
                         THEN [ok |-> FALSE, ret |-> 0, stage |-> "iommu_map_sg",
                               sg |-> __invalidate_sg(fp.sg), iova |-> iova,
                               iova_len |-> fp.iova_len,
                               iovad |-> __free_iova(got, iova),
                               pgtable |-> m.pgtable]
                         ELSE [ok |-> TRUE, ret |-> Len(sg), stage |-> "none",
                               sg |-> __finalise_sg(fp.sg, 1, dma_addr),
                               iova |-> iova, iova_len |-> fp.iova_len,
                               iovad |-> got, pgtable |-> m.pgtable] :
                         m \in iommu_map_sg(pgtable, dma_addr, fp.sg, prot) } :
               iova \in __alloc_iova(iovad, fp.iova_len, dev.dma_mask) }

iommu_dma_map_sg(sg, prot) ==
    /\ Attached
    /\ Cardinality(held) < MaxHeld
    /\ \E o \in map_sg_outcomes(sg, prot) :
         /\ iovad' = o.iovad
         /\ pgtable' = o.pgtable
         /\ held' = IF o.ok
                    THEN held \cup {Holding("sg", o.sg[1].dma_address, Len(sg))}
                    ELSE held
         /\ last' = [Call("map_sg", o.ret) EXCEPT !.ok = o.ok, !.size = Len(sg),
                       !.alloc_size = o.iova_len, !.dma_limit = dev.dma_mask,
                       !.iova = o.iova, !.sg_in = sg, !.sg_out = o.sg,
                       !.stage = o.stage]
    /\ UNCHANGED <<domain, dev, cookie, pagealloc, thr>>

\* iommu_dma_unmap_sg(dev, sg, ...): only sg_dma_address(sg) is used
iommu_dma_unmap_sg(h) ==
    /\ Attached
    /\ h \in held /\ h.kind = "sg"
    /\ LET u == __iommu_dma_unmap(iovad, pgtable, h.handle)
       IN /\ iovad' = u.iovad
          /\ pgtable' = u.pgtable
          /\ last' = [Call("unmap_sg", 0) EXCEPT !.handle = h.handle,
                        !.prev = PrevOf(last)]
    /\ held' = held \ {h}
    /\ UNCHANGED <<domain, dev, cookie, pagealloc, thr>>

\* Segments a caller may pass: unaligned, crossing a granule boundary, with
\* stale DMA fields; aligned, with the DMA address field at the error code;
\* empty at an unaligned offset
Segments ==
    { [page |-> 9, offset |-> 3, length |-> 5, dma_address |-> 7, dma_length |-> 9],
      [page |-> 10, offset |-> 0, length |-> 4, dma_address |-> DMA_ERROR_CODE,
       dma_length |-> 0],
      [page |-> 11, offset |-> 1, length |-> 0, dma_address |-> 0, dma_length |-> 0] }

MaxSegs == 2

SgLists == UNION { [1 .. n -> Segments] : n \in 1 .. MaxSegs }

----------------------------------------------------------------------------
\* Page frames (mm/page_alloc.c).  pagealloc[p] is the reference count of page
\* frame p; a frame is free when it is 0.

PhysPages == 0 .. NPhysPages - 1
NoPage == -1
NullPages == <<NoPage>>
MAX_ORDER == 11

page_to_phys(p) == p * PAGE_SIZE

Block(p, order) == p .. p + 2 ^ order - 1

FreeBlocks(pa, order) ==
    { p \in PhysPages : /\ p % (2 ^ order) = 0
                        /\ Block(p, order) \subseteq PhysPages
                        /\ \A q \in Block(p, order) : pa[q] = 0 }

\* alloc_pages(gfp, order): NULL, or any free naturally aligned block, which
\* the caller then owns
alloc_pages(pa, order) ==
    {[page |-> NoPage, pa |-> pa]} \cup
    { [page |-> p,
       pa |-> [q \in PhysPages |-> IF q \in Block(p, order) THEN 1 ELSE pa[q]]] :
      p \in FreeBlocks(pa, order) }

\* __free_pages(page, order): drops a reference and frees the block when that
\* was the last one
__free_pages(pa, p, order) ==
    IF pa[p] = 1
    THEN [q \in PhysPages |-> IF q \in Block(p, order) THEN 0 ELSE pa[q]]
    ELSE [pa EXCEPT ![p] = @ - 1]

__free_page(pa, p) == __free_pages(pa, p, 0)

\* __iommu_dma_free_pages(pages, count)
RECURSIVE __iommu_dma_free_pages(_, _, _)
__iommu_dma_free_pages(pa, pages, count) ==
    IF count = 0 THEN pa
    ELSE __iommu_dma_free_pages(__free_page(pa, pages[count]), pages, count - 1)

\* [page, order, pa]: the for loop of __iommu_dma_alloc_pages entered at
\* order with page as assigned so far; comp: gfp has __GFP_COMP, so that
\* PageCompound(page) holds of what alloc_pages returns, and split_huge_page
\* may fail
RECURSIVE high_order_pages(_, _, _, _)
high_order_pages(order, page, pa, comp) ==
    IF order = 0 THEN {[page |-> page, order |-> order, pa |-> pa]}
    ELSE UNION {
           IF a.page = NoPage
           THEN high_order_pages(order - 1, a.page, a.pa, comp)
           ELSE IF comp
           THEN {[page |-> a.page, order |-> order, pa |-> a.pa]}
                  \cup high_order_pages(order - 1, a.page,
                                        __free_pages(a.pa, a.page, order), comp)
           ELSE {[page |-> a.page, order |-> order, pa |-> a.pa]} :
           a \in alloc_pages(pa, order) }

\* [pages, pa]: the while loop of __iommu_dma_alloc_pages with count pages
\* still to get, order as the last round left it and pages the array so far
RECURSIVE alloc_pages_loop(_, _, _, _, _)
alloc_pages_loop(count, order, pages, pa, comp) ==
    IF count = 0 THEN {[pages |-> pages, pa |-> pa]}
    ELSE UNION {
           UNION {
             IF b.page = NoPage
             THEN {[pages |-> NullPages,
                    pa |-> __iommu_dma_free_pages(b.pa, pages, Len(pages))]}
             ELSE alloc_pages_loop(
                    count - 2 ^ r.order, r.order,
                    pages \o [k \in 1 .. 2 ^ r.order |-> b.page + k - 1],
                    b.pa, comp) :
             b \in IF r.page = NoPage THEN alloc_pages(r.pa, 0)
                   ELSE {[page |-> r.page, pa |-> r.pa]} } :
           r \in high_order_pages(Min(order, __fls(count)), NoPage, pa, comp) }

\* __iommu_dma_alloc_pages(count, gfp): NullPages when the array or a page
\* cannot be had
__iommu_dma_alloc_pages(count, pa, comp) ==
    {[pages |-> NullPages, pa |-> pa]}
      \cup alloc_pages_loop(count, MAX_ORDER, <<>>, pa, comp)

\* the last index of the run of consecutive page frames that starts at pages[i]
RECURSIVE ChunkEnd(_, _)
ChunkEnd(pages, i) ==
    IF i < Len(pages) /\ pages[i + 1] = pages[i] + 1
    THEN ChunkEnd(pages, i + 1) ELSE i

RECURSIVE SgChunks(_, _, _)
SgChunks(pages, i, size) ==
    IF i > Len(pages) THEN <<>>
    ELSE LET j == ChunkEnd(pages, i)
             chunk_size == (j - i + 1) * PAGE_SIZE
         IN <<[page |-> pages[i], offset |-> 0, length |-> Min(size, chunk_size),
               dma_address |-> 0, dma_length |-> 0]>>
              \o SgChunks(pages, j + 1, (size - chunk_size) % AddrSpace)

\* sg_alloc_table_from_pages(&sgt, pages, count, 0, size, GFP_KERNEL)
\* (lib/scatterlist.c): no table, or one segment per run of consecutive frames
sg_alloc_table_from_pages(pages, size) ==
    {[ret |-> -ENOMEM, sgl |-> <<>>], [ret |-> 0, sgl |-> SgChunks(pages, 1, size)]}

\* the page frames flush_page is called on
FlushedPages(sgl, prot) ==
    IF "IOMMU_CACHE" \in prot THEN {}
    ELSE UNION { { sgl[i].page + k : k \in 0 .. CeilDiv(sgl[i].length, PAGE_SIZE) - 1 } :
                 i \in 1 .. Len(sgl) }

\* the page frames sg_miter_next stops at from segment i on: one stop for each
\* page a segment covers
RECURSIVE MiterPages(_, _)
MiterPages(sgl, i) ==
    IF i > Len(sgl) THEN <<>>
    ELSE [k \in 1 .. CeilDiv(sgl[i].length, PAGE_SIZE) |-> sgl[i].page + k - 1]
           \o MiterPages(sgl, i + 1)

\* the flush_page calls of iommu_dma_alloc: none when prot has IOMMU_CACHE
flush_loop(sgl, prot) ==
    IF "IOMMU_CACHE" \in prot THEN <<>>
    ELSE LET stops == MiterPages(sgl, 1)
         IN [k \in 1 .. Len(stops) |-> [ev |-> "flush_page", page |-> stops[k]]]

MapSgCall == [ev |-> "iommu_map_sg", page |-> NoPage]

\* iommu_dma_alloc installing the translation before it flushes the pages
map_then_flush(sgl, prot) == <<MapSgCall>> \o flush_loop(sgl, prot)

\* what iommu_dma_alloc calls once it has its table: flush_page for every
\* page, then iommu_map_sg
flush_then_map(sgl, prot) == flush_loop(sgl, prot) \o <<MapSgCall>>

BufOutcome(ok, stage, pages, handle, iova, iovad_, pt, pa, flushed, events) ==
    [ok |-> ok, stage |-> stage, pages |-> pages, handle |-> handle,
     iova |-> iova, iovad |-> iovad_, pgtable |-> pt, pa |-> pa,
     flushed |-> flushed, events |-> events]

\* the labels out_free_sg, out_free_iova, out_free_pages of iommu_dma_alloc
out_free(stage, pages, count, iova, iovad_, pa, flushed, events) ==
    BufOutcome(FALSE, stage, NullPages, DMA_ERROR_CODE, iova,
               IF iova = NoIova THEN iovad_ ELSE __free_iova(iovad_, iova),
               pgtable, __iommu_dma_free_pages(pa, pages, count), flushed,
               events)

\* iommu_dma_alloc reserving its interval before it has the pages
pages_failed_after_reserving(pa) ==
    { BufOutcome(FALSE, "alloc_pages", NullPages, DMA_ERROR_CODE, iova,
                 IF iova = NoIova THEN iovad ELSE InsertIova(iovad, iova),
                 pgtable, pa, {}, <<>>) :
      iova \in __alloc_iova(iovad, PAGE_SIZE, dev.coherent_dma_mask) }

\* iommu_dma_alloc when __iommu_dma_alloc_pages returned NULL
pages_failed(pa) ==
    { BufOutcome(FALSE, "alloc_pages", NullPages, DMA_ERROR_CODE, NoIova, iovad,
                 pgtable, pa, {}, <<>>) }

\* the outcomes of iommu_dma_alloc(dev, size, gfp, prot, handle, flush_page)
\* once it has its pages
alloc_with_pages(size, prot, pages, pa) ==
    LET count == PAGE_ALIGN(size) \div PAGE_SIZE
        asize == iova_align(iovad, size)
    IN UNION {
         IF iova = NoIova
         THEN {out_free("alloc_iova", pages, count, NoIova, iovad, pa, {}, <<>>)}
         ELSE LET got == InsertIova(iovad, iova)
                  dma_addr == iova_dma_addr(iovad, iova)
              IN UNION {
                   IF t.ret # 0
                   THEN {out_free("sg_alloc_table", pages, count, iova, got, pa, {},
                                  <<>>)}
                   ELSE { IF m.mapped < asize
                          THEN out_free("iommu_map_sg", pages, count, iova, got,
                                        pa, FlushedPages(t.sgl, prot),
                                        flush_then_map(t.sgl, prot))
                          ELSE BufOutcome(TRUE, "none", pages, dma_addr, iova, got,
                                          m.pgtable, pa,
                                          FlushedPages(t.sgl, prot),
                                          flush_then_map(t.sgl, prot)) :
                          m \in iommu_map_sg(pgtable, dma_addr, t.sgl, prot) } :
                   t \in sg_alloc_table_from_pages(pages, asize) } :
         iova \in __alloc_iova(iovad, size, dev.coherent_dma_mask) }

alloc_outcomes(size, comp, prot) ==
    UNION { IF r.pages = NullPages THEN pages_failed(r.pa)
            ELSE alloc_with_pages(size, prot, r.pages, r.pa) :
            r \in __iommu_dma_alloc_pages(PAGE_ALIGN(size) \div PAGE_SIZE,
                                          pagealloc, comp) }

iommu_dma_alloc(size, comp, prot) ==
    /\ Attached
    /\ Cardinality(held) < MaxHeld
    /\ \E o \in alloc_outcomes(size, comp, prot) :
         /\ iovad' = o.iovad
         /\ pgtable' = o.pgtable
         /\ pagealloc' = o.pa
         /\ held' = IF o.ok
                    THEN held \cup {[Holding("buf", o.handle, size)
                                       EXCEPT !.pages = o.pages]}
                    ELSE held
         /\ last' = [Call("alloc", 0) EXCEPT !.ok = o.ok, !.size = size,
                       !.alloc_size = size, !.dma_limit = dev.coherent_dma_mask,
                       !.iova = o.iova, !.stage = o.stage, !.pages = o.pages,
                       !.handle = o.handle, !.comp = comp,
                       !.pre_pa = pagealloc, !.pre_pt = pgtable,
                       !.flushed = o.flushed, !.prot = prot,
                       !.events = o.events]
    /\ UNCHANGED <<domain, dev, cookie, thr>>

\* iommu_dma_free returning when __iommu_dma_unmap found no interval
free_only_when_found(h, handle) ==
    /\ Attached
    /\ h \in held /\ h.kind = "buf"
    /\ LET u == __iommu_dma_unmap(iovad, pgtable, handle)
       IN /\ iovad' = u.iovad
          /\ pgtable' = u.pgtable
          /\ last' = [Call("free", 0) EXCEPT
                        !.handle = IF u.found THEN DMA_ERROR_CODE ELSE handle,
                        !.size = h.size, !.pages = h.pages,
                        !.stage = IF ~u.found THEN "not_found"
                                  ELSE IF u.left > 0 THEN "short" ELSE "none",
                        !.pre_pa = pagealloc, !.pre_pt = pgtable,
                        !.prev = PrevOf(last)]
          /\ pagealloc' = IF u.found
                          THEN __iommu_dma_free_pages(pagealloc, h.pages,
                                 PAGE_ALIGN(h.size) \div PAGE_SIZE)
                          ELSE pagealloc
    /\ held' = held \ {h}
    /\ UNCHANGED <<domain, dev, cookie, thr>>

\* iommu_dma_free(dev, pages, size, handle) of the buffer h with *handle =
\* handle; stage records what __iommu_dma_unmap warned about
iommu_dma_free_handle(h, handle) ==
    /\ Attached
    /\ h \in held /\ h.kind = "buf"
    /\ LET u == __iommu_dma_unmap(iovad, pgtable, handle)
       IN /\ iovad' = u.iovad
          /\ pgtable' = u.pgtable
          /\ last' = [Call("free", 0) EXCEPT !.handle = DMA_ERROR_CODE,
                        !.size = h.size, !.pages = h.pages,
                        !.stage = IF ~u.found THEN "not_found"
                                  ELSE IF u.left > 0 THEN "short" ELSE "none",
                        !.pre_pa = pagealloc, !.pre_pt = pgtable,
                        !.prev = PrevOf(last)]
    /\ pagealloc' = __iommu_dma_free_pages(pagealloc, h.pages,
                                           PAGE_ALIGN(h.size) \div PAGE_SIZE)
    /\ held' = held \ {h}
    /\ UNCHANGED <<domain, dev, cookie, thr>>

\* iommu_dma_free with the handle iommu_dma_alloc returned
iommu_dma_free(h) == iommu_dma_free_handle(h, h.handle)

\* [size, comp, coherent] requests: under a page; two pages, as compound
\* pages, for a non-coherent device; two pages and a half
BufRequests ==
    { [size |-> 3, comp |-> FALSE, coherent |-> TRUE],
      [size |-> 8, comp |-> TRUE, coherent |-> FALSE],
      [size |-> 10, comp |-> FALSE, coherent |-> FALSE] }

----------------------------------------------------------------------------
\* MSI doorbells (dma-iommu.c:650-735).  msi_page_list holds [iova, phys]
\* entries, newest first.  A message is [address_hi, address_lo, data], each
\* half of the address HalfBits wide.

HalfBits == AddrBits \div 2
HalfSpace == 2 ^ HalfBits
upper_32_bits(x) == x \div HalfSpace
lower_32_bits(x) == x % HalfSpace
AllOnes == HalfSpace - 1

\* a doorbell installed like ordinary memory the device reads and writes
MsiProtReadWrite == {"IOMMU_READ", "IOMMU_WRITE"}

MsiProt == {"IOMMU_WRITE", "IOMMU_NOEXEC", "IOMMU_MMIO"}

\* iommu_dma_get_msi_page looking the cache up by the address as it came
msi_addr_unmasked(msi_addr, size) == msi_addr

\* msi_addr &= ~(phys_addr_t)(size - 1)
msi_addr_mask(msi_addr, size) == BitAnd(msi_addr, (AddrSpace - size) % AddrSpace)

\* the entries list_for_each_entry finds for the address, in list order
MsiHits(list, addr) == SelectSeq(list, LAMBDA e : e.phys = addr)

\* stage: "hit" when the cache had the entry, else the step that failed, or
\* "none" when the entry was created
MsiOutcome(ok, stage, iova, cookie_, iovad_, pt) ==
    [ok |-> ok, stage |-> stage, iova |-> iova, cookie |-> cookie_,
     iovad |-> iovad_, pgtable |-> pt]

\* iommu_dma_get_msi_page returning from a failed iommu_map without giving
\* back what it reserved
msi_keep_reservation(cookie_, iovad_, iova, size) ==
    [cookie |-> cookie_, iovad |-> iovad_]

\* the label out_free_iova rewinding the cursor of an MSI cookie to the base
\* the cookie was created with
msi_out_free_rewinding(cookie_, iovad_, iova, size) ==
    IF cookie_iovad(cookie_)
    THEN [cookie |-> cookie_, iovad |-> __free_iova(iovad_, iova)]
    ELSE [cookie |-> [cookie_ EXCEPT !.msi_iova = CHOOSE b \in MsiBases : TRUE],
          iovad |-> iovad_]

\* [cookie, iovad]: the label out_free_iova of iommu_dma_get_msi_page, entered
\* with the interval reserved or the cursor advanced
msi_out_free_iova(cookie_, iovad_, iova, size) ==
    IF cookie_iovad(cookie_)
    THEN [cookie |-> cookie_, iovad |-> __free_iova(iovad_, iova)]
    ELSE [cookie |-> [cookie_ EXCEPT !.msi_iova = (@ - size) % AddrSpace],
          iovad |-> iovad_]

\* iommu_dma_get_msi_page(dev, msi_addr, domain) past the cache lookup, for
\* the granule at addr
msi_page_create(addr, size) ==
    {MsiOutcome(FALSE, "kzalloc", 0, cookie, iovad, pgtable)} \cup
    IF cookie_iovad(cookie)
    THEN UNION {
           IF iova = NoIova
           THEN {MsiOutcome(FALSE, "alloc_iova", 0, cookie, iovad, pgtable)}
           ELSE LET got == InsertIova(iovad, iova)
                    undone == msi_out_free_iova(cookie, got, iova, size)
                IN { IF m.ret # 0
                     THEN MsiOutcome(FALSE, "iommu_map", 0, undone.cookie,
                                     undone.iovad, m.pgtable)
                     ELSE MsiOutcome(TRUE, "none", iova_dma_addr(iovad, iova),
                            [cookie EXCEPT !.msi_page_list =
                               <<[iova |-> iova_dma_addr(iovad, iova),
                                  phys |-> addr]>> \o @],
                            got, m.pgtable) :
                     m \in iommu_map(pgtable, iova_dma_addr(iovad, iova), addr,
                                     size, MsiProt) } :
           iova \in __alloc_iova(iovad, size, dev.dma_mask) }
    ELSE LET got == [cookie EXCEPT !.msi_iova = (@ + size) % AddrSpace]
             undone == msi_out_free_iova(got, iovad, NoIova, size)
         IN { IF m.ret # 0
              THEN MsiOutcome(FALSE, "iommu_map", 0, undone.cookie, undone.iovad,
                              m.pgtable)
              ELSE MsiOutcome(TRUE, "none", cookie.msi_iova,
                     [got EXCEPT !.msi_page_list =
                        <<[iova |-> cookie.msi_iova, phys |-> addr]>> \o @],
                     iovad, m.pgtable) :
              m \in iommu_map(pgtable, cookie.msi_iova, addr, size, MsiProt) }

\* [ok, iova, cookie, iovad, pgtable]: the outcomes of
\* iommu_dma_get_msi_page(dev, msi_addr, domain); ok: it returned a page
iommu_dma_get_msi_page(msi_addr) ==
    LET size == cookie_msi_granule(cookie, iovad)
        addr == msi_addr_mask(msi_addr, size)
        hits == MsiHits(cookie.msi_page_list, addr)
    IN IF hits # <<>>
       THEN {MsiOutcome(TRUE, "hit", hits[1].iova, cookie, iovad, pgtable)}
       ELSE msi_page_create(addr, size)

\* msi_msg_rewrite adding the device address to the whole low word
msi_msg_rewrite_unmasked(msg, o) ==
    IF ~o.ok
    THEN [address_hi |-> AllOnes, address_lo |-> AllOnes, data |-> AllOnes]
    ELSE [msg EXCEPT
            !.address_hi = upper_32_bits(o.iova),
            !.address_lo = (@ + lower_32_bits(o.iova)) % HalfSpace]

\* msi_msg_rewrite returning early when no doorbell entry was obtained
msi_msg_rewrite_only_on_success(msg, o) ==
    IF ~o.ok
    THEN msg
    ELSE [msg EXCEPT
            !.address_hi = upper_32_bits(o.iova),
            !.address_lo =
               (BitAnd(@, cookie_msi_granule(cookie, iovad) - 1)
                  + lower_32_bits(o.iova)) % HalfSpace]

\* the message iommu_dma_map_msi_msg leaves behind
msi_msg_rewrite(msg, o) ==
    IF ~o.ok
    THEN [address_hi |-> AllOnes, address_lo |-> AllOnes, data |-> AllOnes]
    ELSE [msg EXCEPT
            !.address_hi = upper_32_bits(o.iova),
            !.address_lo =
               (BitAnd(@, cookie_msi_granule(cookie, iovad) - 1)
                  + lower_32_bits(o.iova)) % HalfSpace]

\* the doorbell granule of a physical address
MsiGranuleOf(phys) == phys \div cookie_msi_granule(cookie, iovad)

\* iommu_dma_map_msi_msg(irq, msg) for a device of the domain.  A domain with
\* an IOVA cookie has been through iommu_dma_init_domain by then: before it
\* the granule is 0 and the size of the doorbell is too.
iommu_dma_map_msi_msg(msg) ==
    LET msi_addr == msg.address_hi * HalfSpace + msg.address_lo
    IN IF cookie.type = "NONE"
       THEN /\ last' = [Call("map_msi_msg", 0) EXCEPT !.ok = FALSE,
                          !.phys = msi_addr, !.msg_in = msg, !.msg_out = msg,
                          !.stage = "no_cookie"]
            /\ UNCHANGED <<domain, dev, cookie, iovad, pgtable, pagealloc, held, thr>>
       ELSE /\ cookie_iovad(cookie) => iovad.granule # 0
            /\ \E o \in iommu_dma_get_msi_page(msi_addr) :
                 /\ cookie' = o.cookie
                 /\ iovad' = o.iovad
                 /\ pgtable' = o.pgtable
                 /\ last' = [Call("map_msi_msg", 0) EXCEPT !.ok = o.ok,
                               !.phys = msi_addr, !.handle = o.iova,
                               !.stage = o.stage,
                               !.msg_in = msg, !.msg_out = msi_msg_rewrite(msg, o),
                               !.pre_cookie = cookie, !.pre_pt = pgtable,
                               !.known = { d.iova : d \in
                                   { e \in last.doorbells :
                                       e.granule = MsiGranuleOf(msi_addr) } },
                               !.doorbells =
                                   IF o.ok
                                   THEN @ \cup {[granule |-> MsiGranuleOf(msi_addr),
                                                 iova |-> o.iova]}
                                   ELSE @]
            /\ UNCHANGED <<domain, dev, pagealloc, held, thr>>

\* messages for two doorbells of one granule and one of another
MsiMsgs ==
    { [address_hi |-> 5, address_lo |-> 0, data |-> 1],
      [address_hi |-> 5, address_lo |-> 1, data |-> 2],
      [address_hi |-> 5, address_lo |-> 6, data |-> 3] }

\* <<domain, device>> pairs for MSI remapping: DMA domains of granule 4 and 2,
\* and a domain whose user manages the IOVA space
MsiConfigs ==
    { <<Domain("IOMMU_DOMAIN_DMA", 4, TRUE), Device(31, FALSE)>>,
      <<Domain("IOMMU_DOMAIN_DMA", 6, FALSE), Device(15, FALSE)>>,
      <<Domain("IOMMU_DOMAIN_UNMANAGED", 4, FALSE), Device(31, TRUE)>> }

----------------------------------------------------------------------------
\* Concurrent callers.  thr[t] is what thread t is doing: pc is where it is in
\* its call, iova the interval the call holds, pages a buffer's page frames.
\* A call is cut at its calls into the allocator and the programmer, each of
\* which runs under that component's own lock; iommu_dma_get_msi_page runs
\* under the cookie's msi_lock from end to end.

NThreads == 2
Threads == 1 .. NThreads

IdleThread == [pc |-> "idle", kind |-> "none", iova |-> NoIova, pages |-> <<>>]

\* what the threads ask for: a region, a one-segment scatterlist, a buffer of
\* one page, a doorbell
ConcRequests ==
    [page |-> [phys |-> 43, size |-> 5],
     sg |-> <<[page |-> 9, offset |-> 3, length |-> 5, dma_address |-> 7,
               dma_length |-> 9]>>,
     buf |-> [size |-> 3, comp |-> FALSE],
     msi |-> [msi_addr |-> 41]]

ConcProt == dma_direction_to_prot("DMA_BIDIRECTIONAL", TRUE)

\* the size and the limit each caller passes to __alloc_iova
ConcLength(kind) ==
    CASE kind = "page" ->
           iova_align(iovad, ConcRequests.page.size
                               + iova_offset(iovad, ConcRequests.page.phys))
      [] kind = "sg" -> sg_first_pass(ConcRequests.sg, 1, 0).iova_len
      [] kind = "buf" -> ConcRequests.buf.size
      [] kind = "msi" -> cookie_msi_granule(cookie, iovad)

ConcLimit(kind) == IF kind = "buf" THEN dev.coherent_dma_mask ELSE dev.dma_mask

\* the address the caller gets back for the interval
ConcHandle(kind, iova) ==
    CASE kind = "page" ->
           (iova_dma_addr(iovad, iova)
              + iova_offset(iovad, ConcRequests.page.phys)) % AddrSpace
      [] kind = "sg" ->
           __finalise_sg(sg_first_pass(ConcRequests.sg, 1, 0).sg, 1,
                         iova_dma_addr(iovad, iova))[1].dma_address
      [] OTHER -> iova_dma_addr(iovad, iova)

Busy == { t \in DOMAIN thr : thr[t].pc # "idle" }

HasRoom == Cardinality(held) + Cardinality(Busy) < MaxHeld

\* alloc_iova handing the interval out without entering it in the tree
reserve_deferred(iovad_, iova) == iovad_

\* alloc_iova entering the interval it found in the tree before it drops
\* iova_rbtree_lock
reserve_locked(iovad_, iova) == InsertIova(iovad_, iova)

\* iommu_dma_alloc up to its call of __alloc_iova
conc_alloc_pages(t) ==
    /\ Attached
    /\ thr[t].pc = "idle"
    /\ HasRoom
    /\ \E r \in __iommu_dma_alloc_pages(
                  PAGE_ALIGN(ConcRequests.buf.size) \div PAGE_SIZE, pagealloc,
                  ConcRequests.buf.comp) :
         /\ pagealloc' = r.pa
         /\ thr' = IF r.pages = NullPages THEN thr
                   ELSE [thr EXCEPT ![t] = [IdleThread EXCEPT !.pc = "reserve",
                                              !.kind = "buf", !.pages = r.pages]]
    /\ UNCHANGED <<domain, dev, cookie, iovad, pgtable, held, last>>

\* the call of __alloc_iova by iommu_dma_map_page, iommu_dma_map_sg,
\* iommu_dma_alloc and iommu_dma_get_msi_page; the last has taken msi_lock and
\* found no entry for the address
conc_reserve(t, kind) ==
    /\ Attached
    /\ \/ kind = "buf" /\ thr[t].pc = "reserve"
       \/ kind \in {"page", "sg"} /\ thr[t].pc = "idle" /\ HasRoom
       \/ /\ kind = "msi" /\ thr[t].pc = "idle" /\ HasRoom
          /\ \A u \in Busy : thr[u].kind # "msi"
          /\ MsiHits(cookie.msi_page_list,
                     msi_addr_mask(ConcRequests.msi.msi_addr,
                                   cookie_msi_granule(cookie, iovad))) = <<>>
    /\ \E iova \in __alloc_iova(iovad, ConcLength(kind), ConcLimit(kind)) :
         IF iova = NoIova
         THEN /\ thr' = [thr EXCEPT ![t] = IdleThread]
              /\ pagealloc' = __iommu_dma_free_pages(pagealloc, thr[t].pages,
                                                     Len(thr[t].pages))
              /\ UNCHANGED iovad
         ELSE /\ iovad' = reserve_locked(iovad, iova)
              /\ thr' = [thr EXCEPT ![t] = [@ EXCEPT !.pc = "install",
                                              !.kind = kind, !.iova = iova]]
              /\ UNCHANGED pagealloc
    /\ UNCHANGED <<domain, dev, cookie, pgtable, held, last>>

\* [ok, pgtable]: what the caller's call into the programmer does
ConcInstalls(kind, iova, pages) ==
    LET dma_addr == iova_dma_addr(iovad, iova)
    IN CASE kind = "page" ->
              { [ok |-> m.ret = 0, pgtable |-> m.pgtable] :
                m \in iommu_map(pgtable, dma_addr,
                                ConcRequests.page.phys
                                  - iova_offset(iovad, ConcRequests.page.phys),
                                ConcLength("page"), ConcProt) }
         [] kind = "sg" ->
              { [ok |-> m.mapped >= ConcLength("sg"), pgtable |-> m.pgtable] :
                m \in iommu_map_sg(pgtable, dma_addr,
                                   sg_first_pass(ConcRequests.sg, 1, 0).sg,
                                   ConcProt) }
         [] kind = "buf" ->
              UNION { IF s.ret # 0 THEN {[ok |-> FALSE, pgtable |-> pgtable]}
                      ELSE { [ok |-> m.mapped >= iova_align(iovad, ConcRequests.buf.size),
                              pgtable |-> m.pgtable] :
                             m \in iommu_map_sg(pgtable, dma_addr, s.sgl, ConcProt) } :
                      s \in sg_alloc_table_from_pages(
                              pages, iova_align(iovad, ConcRequests.buf.size)) }
         [] kind = "msi" ->
              { [ok |-> m.ret = 0, pgtable |-> m.pgtable] :
                m \in iommu_map(pgtable, dma_addr,
                                msi_addr_mask(ConcRequests.msi.msi_addr,
                                              cookie_msi_granule(cookie, iovad)),
                                cookie_msi_granule(cookie, iovad), MsiProt) }

\* the call into the programmer and, when it succeeds, the return to the
\* caller, who from then on holds the mapping
conc_install(t) ==
    /\ thr[t].pc = "install"
    /\ \E o \in ConcInstalls(thr[t].kind, thr[t].iova, thr[t].pages) :
         /\ pgtable' = o.pgtable
         /\ IF o.ok
            THEN /\ held' = held \cup
                      {[Holding(thr[t].kind, ConcHandle(thr[t].kind, thr[t].iova),
                                ConcLength(thr[t].kind))
                          EXCEPT !.iova = thr[t].iova, !.pages = thr[t].pages]}
                 /\ thr' = [thr EXCEPT ![t] = IdleThread]
                 /\ cookie' =
                      IF thr[t].kind = "msi"
                      THEN [cookie EXCEPT !.msi_page_list =
                              <<[iova |-> iova_dma_addr(iovad, thr[t].iova),
                                 phys |-> msi_addr_mask(ConcRequests.msi.msi_addr,
                                            cookie_msi_granule(cookie, iovad))]>> \o @]
                      ELSE cookie
            ELSE /\ thr' = [thr EXCEPT ![t] = [@ EXCEPT !.pc = "undo"]]
                 /\ UNCHANGED <<held, cookie>>
    /\ UNCHANGED <<domain, dev, iovad, pagealloc, last>>

\* the error path of the caller: __free_iova, then the buffer's pages
conc_undo(t) ==
    /\ thr[t].pc = "undo"
    /\ iovad' = __free_iova(iovad, thr[t].iova)
    /\ pagealloc' = __iommu_dma_free_pages(pagealloc, thr[t].pages,
                                           Len(thr[t].pages))
    /\ thr' = [thr EXCEPT ![t] = IdleThread]
    /\ UNCHANGED <<domain, dev, cookie, pgtable, held, last>>

\* __iommu_dma_unmap up to find_iova, called with a mapping the caller holds
conc_unmap_find(t, h) ==
    /\ Attached
    /\ thr[t].pc = "idle"
    /\ h \in held /\ h.kind # "msi"
    /\ held' = held \ {h}
    /\ LET iova == find_iova(iovad, h.handle \div 2 ^ iova_shift(iovad))
       IN thr' = [thr EXCEPT ![t] =
                    IF iova = NoIova THEN IdleThread
                    ELSE [IdleThread EXCEPT !.pc = "unmap", !.kind = h.kind,
                                            !.iova = iova, !.pages = h.pages]]
    /\ UNCHANGED <<domain, dev, cookie, iovad, pgtable, pagealloc, last>>

\* __iommu_dma_unmap giving the interval back where it should uninstall the
\* translation
conc_free_before_unmap(t) ==
    /\ thr[t].pc = "unmap"
    /\ iovad' = __free_iova(iovad, thr[t].iova)
    /\ thr' = [thr EXCEPT ![t] = [@ EXCEPT !.pc = "free"]]
    /\ UNCHANGED <<domain, dev, cookie, pgtable, pagealloc, held, last>>

\* __iommu_dma_unmap, iommu_unmap of the interval
conc_unmap_pt(t) ==
    /\ thr[t].pc = "unmap"
    /\ pgtable' = iommu_unmap(pgtable, iova_dma_addr(iovad, thr[t].iova),
                              iova_size(thr[t].iova) * 2 ^ iova_shift(iovad)).pgtable
    /\ thr' = [thr EXCEPT ![t] = [@ EXCEPT !.pc = "free"]]
    /\ UNCHANGED <<domain, dev, cookie, iovad, pagealloc, held, last>>

\* __iommu_dma_unmap, __free_iova; iommu_dma_free then frees the pages
conc_free(t) ==
    /\ thr[t].pc = "free"
    /\ iovad' = __free_iova(iovad, thr[t].iova)
    /\ pagealloc' = __iommu_dma_free_pages(pagealloc, thr[t].pages,
                                           Len(thr[t].pages))
    /\ thr' = [thr EXCEPT ![t] = IdleThread]
    /\ UNCHANGED <<domain, dev, cookie, pgtable, held, last>>

\* <<domain, device>> pairs the threads run on
ConcConfigs ==
    { <<Domain("IOMMU_DOMAIN_DMA", 4, TRUE), Device(31, FALSE)>>,
      <<Domain("IOMMU_DOMAIN_DMA", 6, TRUE), Device(15, TRUE)>> }

----------------------------------------------------------------------------
\* The allocator wrapper on its own: allocate(length, limit) and free, for
\* any request size and limit a caller of this file may pass.
AllocSizes == {1, 5, 8}
AllocLimits == {15, 31}

do_alloc_iova(size, dma_limit) ==
    /\ Attached
    /\ Cardinality(held) < MaxHeld
    /\ \E iova \in __alloc_iova(iovad, size, dma_limit) :
         /\ iovad' = IF iova = NoIova THEN iovad ELSE InsertIova(iovad, iova)
         /\ held' = IF iova = NoIova THEN held
                    ELSE held \cup {Holding("iova", iova_dma_addr(iovad, iova), size)}
         /\ last' = [Call("alloc_iova", 0) EXCEPT !.ok = (iova # NoIova),
                       !.size = size, !.alloc_size = size,
                       !.dma_limit = dma_limit, !.iova = iova]
    /\ UNCHANGED <<domain, dev, cookie, pgtable, pagealloc, thr>>

do_free_iova(h) ==
    /\ Attached
    /\ h \in held /\ h.kind = "iova"
    /\ iovad' = __free_iova(iovad, find_iova(iovad, iova_pfn(iovad, h.handle)))
    /\ held' = held \ {h}
    /\ last' = [Call("free_iova", 0) EXCEPT !.handle = h.handle]
    /\ UNCHANGED <<domain, dev, cookie, pgtable, pagealloc, thr>>

----------------------------------------------------------------------------

Idle ==
    /\ cookie = NoCookie
    /\ iovad = ZeroIovad
    /\ pgtable = {}
    /\ pagealloc = [p \in PhysPages |-> 0]
    /\ held = {}
    /\ last = NoCall
    /\ thr = NoThreads

Init ==
    /\ \E c \in DmaConfigs : domain = c[1] /\ dev = c[2]
    /\ Idle

Next ==
    \/ iommu_get_dma_cookie
    \/ iommu_put_dma_cookie
    \/ \E base \in InitBases, size \in InitSizes : iommu_dma_init_domain(base, size)
    \/ \E r \in MapRequests :
         iommu_dma_map_page(r.phys, r.size,
                            dma_direction_to_prot("DMA_BIDIRECTIONAL", FALSE))
    \/ \E h \in held : iommu_dma_unmap_page(h)

Spec == Init /\ [][Next]_vars

NextSG ==
    \/ iommu_get_dma_cookie
    \/ iommu_put_dma_cookie
    \/ \E base \in InitBases, size \in InitSizes : iommu_dma_init_domain(base, size)
    \/ \E sg \in SgLists :
         iommu_dma_map_sg(sg, dma_direction_to_prot("DMA_TO_DEVICE", TRUE))
    \/ \E h \in held : iommu_dma_unmap_sg(h)

SpecSG == Init /\ [][NextSG]_vars

NextBuf ==
    \/ iommu_get_dma_cookie
    \/ iommu_put_dma_cookie
    \/ \E base \in InitBases, size \in InitSizes : iommu_dma_init_domain(base, size)
    \/ \E r \in BufRequests :
         iommu_dma_alloc(r.size, r.comp,
                         dma_direction_to_prot("DMA_BIDIRECTIONAL", r.coherent))
    \/ \E h \in held : iommu_dma_free(h)

SpecBuf == Init /\ [][NextBuf]_vars

InitMsi ==
    /\ \E c \in MsiConfigs : domain = c[1] /\ dev = c[2]
    /\ Idle

NextMsi ==
    \/ iommu_get_dma_cookie
    \/ \E base \in MsiBases : iommu_get_msi_cookie(base)
    \/ iommu_put_dma_cookie
    \/ \E base \in InitBases, size \in InitSizes : iommu_dma_init_domain(base, size)
    \/ \E msg \in MsiMsgs : iommu_dma_map_msi_msg(msg)

SpecMsi == InitMsi /\ [][NextMsi]_vars

InitConc ==
    /\ \E c \in ConcConfigs : domain = c[1] /\ dev = c[2]
    /\ cookie = NoCookie
    /\ iovad = ZeroIovad
    /\ pgtable = {}
    /\ pagealloc = [p \in PhysPages |-> 0]
    /\ held = {}
    /\ last = NoCall
    /\ thr = [t \in Threads |-> IdleThread]

\* The domain is given its cookie and initialised once, before the first call
\* on it, and torn down when no call is in progress.
NextConc ==
    \/ cookie.type = "NONE" /\ iommu_get_dma_cookie
    \/ iommu_put_dma_cookie
    \/ /\ iovad.granule = 0
       /\ \E base \in InitBases, size \in InitSizes : iommu_dma_init_domain(base, size)
    \/ \E t \in Threads : conc_alloc_pages(t)
    \/ \E t \in Threads, kind \in {"page", "sg", "buf", "msi"} : conc_reserve(t, kind)
    \/ \E t \in Threads : conc_install(t)
    \/ \E t \in Threads : conc_undo(t)
    \/ \E t \in Threads, h \in held : conc_unmap_find(t, h)
    \/ \E t \in Threads : conc_unmap_pt(t)
    \/ \E t \in Threads : conc_free(t)

SpecConc == InitConc /\ [][NextConc]_vars

----------------------------------------------------------------------------
\* Concurrent iommu_dma_map_msi_msg (dma-iommu.c:697-735, 650-695), step by
\* step.  thr[t] is [pc, msg, iova, dma, ok]: where caller t is, its message,
\* the interval and the device address it reserved or found, and whether
\* iommu_dma_get_msi_page returned a page.

IdleMsiThread == [pc |-> "idle", msg |-> <<>>, iova |-> NoIova, dma |-> 0,
                  ok |-> FALSE]

MsiAddrOf(t) == thr[t].msg.address_hi * HalfSpace + thr[t].msg.address_lo

\* where a caller is while it holds cookie->msi_lock
MsiLockedPcs == {"lookup", "reserve", "install", "unlock"}

\* spin_lock_irqsave that lets every caller in
spin_lock_absent(t) == TRUE

\* spin_lock_irqsave(&cookie->msi_lock, flags) can return to caller t
spin_lock_irqsave(t) == \A u \in Threads \ {t} : thr[u].pc \notin MsiLockedPcs

\* iommu_dma_map_msi_msg up to the lock, on a domain that has a cookie
msi_enter(t, msg) ==
    /\ thr[t].pc = "idle"
    /\ cookie.type # "NONE"
    /\ cookie_iovad(cookie) => iovad.granule # 0
    /\ thr' = [thr EXCEPT ![t] = [IdleMsiThread EXCEPT !.pc = "lock", !.msg = msg]]
    /\ UNCHANGED <<domain, dev, cookie, iovad, pgtable, pagealloc, held, last>>

msi_spin_lock(t) ==
    /\ thr[t].pc = "lock"
    /\ spin_lock_irqsave(t)
    /\ thr' = [thr EXCEPT ![t].pc = "lookup"]
    /\ UNCHANGED <<domain, dev, cookie, iovad, pgtable, pagealloc, held, last>>

\* iommu_dma_get_msi_page: the walk of msi_page_list and, on a miss, kzalloc
msi_lookup(t) ==
    /\ thr[t].pc = "lookup"
    /\ LET size == cookie_msi_granule(cookie, iovad)
           hits == MsiHits(cookie.msi_page_list, msi_addr_mask(MsiAddrOf(t), size))
       IN IF hits # <<>>
          THEN thr' = [thr EXCEPT ![t] = [@ EXCEPT !.pc = "unlock", !.ok = TRUE,
                                            !.dma = hits[1].iova]]
          ELSE \E nomem \in BOOLEAN :
                 thr' = [thr EXCEPT ![t].pc = IF nomem THEN "unlock" ELSE "reserve"]
    /\ UNCHANGED <<domain, dev, cookie, iovad, pgtable, pagealloc, held, last>>

\* iommu_dma_get_msi_page: __alloc_iova, or the advance of msi_iova
msi_reserve(t) ==
    /\ thr[t].pc = "reserve"
    /\ LET size == cookie_msi_granule(cookie, iovad)
       IN IF cookie_iovad(cookie)
          THEN /\ \E iova \in __alloc_iova(iovad, size, dev.dma_mask) :
                    IF iova = NoIova
                    THEN /\ thr' = [thr EXCEPT ![t].pc = "unlock"]
                         /\ UNCHANGED iovad
                    ELSE /\ iovad' = InsertIova(iovad, iova)
                         /\ thr' = [thr EXCEPT ![t] =
                                      [@ EXCEPT !.pc = "install", !.iova = iova,
                                                !.dma = iova_dma_addr(iovad, iova)]]
               /\ UNCHANGED cookie
          ELSE /\ cookie' = [cookie EXCEPT !.msi_iova = (@ + size) % AddrSpace]
               /\ thr' = [thr EXCEPT ![t] = [@ EXCEPT !.pc = "install",
                                               !.dma = cookie.msi_iova]]
               /\ UNCHANGED iovad
    /\ UNCHANGED <<domain, dev, pgtable, pagealloc, held, last>>

\* iommu_dma_get_msi_page: iommu_map, then list_add or out_free_iova
msi_install(t) ==
    /\ thr[t].pc = "install"
    /\ LET size == cookie_msi_granule(cookie, iovad)
           addr == msi_addr_mask(MsiAddrOf(t), size)
       IN \E m \in iommu_map(pgtable, thr[t].dma, addr, size, MsiProt) :
            /\ pgtable' = m.pgtable
            /\ IF m.ret # 0
               THEN LET undone == msi_out_free_iova(cookie, iovad, thr[t].iova, size)
                    IN /\ cookie' = undone.cookie
                       /\ iovad' = undone.iovad
                       /\ thr' = [thr EXCEPT ![t] = [@ EXCEPT !.pc = "unlock",
                                                       !.iova = NoIova]]
               ELSE /\ cookie' = [cookie EXCEPT !.msi_page_list =
                                    <<[iova |-> thr[t].dma, phys |-> addr]>> \o @]
                    /\ thr' = [thr EXCEPT ![t] = [@ EXCEPT !.pc = "unlock",
                                                    !.ok = TRUE]]
                    /\ UNCHANGED iovad
    /\ UNCHANGED <<domain, dev, pagealloc, held, last>>

\* spin_unlock_irqrestore and the rewriting of the message
msi_spin_unlock(t) ==
    /\ thr[t].pc = "unlock"
    /\ thr' = [thr EXCEPT ![t] = IdleMsiThread]
    /\ last' = [Call("map_msi_msg", 0) EXCEPT !.ok = thr[t].ok,
                  !.phys = MsiAddrOf(t), !.handle = thr[t].dma,
                  !.msg_in = thr[t].msg,
                  !.msg_out = msi_msg_rewrite(thr[t].msg,
                                [ok |-> thr[t].ok, iova |-> thr[t].dma]),
                  !.doorbells =
                      IF thr[t].ok
                      THEN @ \cup {[granule |-> MsiGranuleOf(MsiAddrOf(t)),
                                    iova |-> thr[t].dma]}
                      ELSE @]
    /\ UNCHANGED <<domain, dev, cookie, iovad, pgtable, pagealloc, held>>

InitMsiConc ==
    /\ \E c \in MsiConfigs : domain = c[1] /\ dev = c[2]
    /\ cookie = NoCookie
    /\ iovad = ZeroIovad
    /\ pgtable = {}
    /\ pagealloc = [p \in PhysPages |-> 0]
    /\ held = {}
    /\ last = NoCall
    /\ thr = [t \in Threads |-> IdleMsiThread]

\* The domain is given its cookie and initialised once, before the first
\* message, and torn down when no call is in progress.
NextMsiConc ==
    \/ cookie.type = "NONE" /\ iommu_get_dma_cookie
    \/ cookie.type = "NONE" /\ \E base \in MsiBases : iommu_get_msi_cookie(base)
    \/ iommu_put_dma_cookie
    \/ /\ iovad.granule = 0
       /\ \E base \in InitBases, size \in InitSizes : iommu_dma_init_domain(base, size)
    \/ \E t \in Threads, msg \in MsiMsgs : msi_enter(t, msg)
    \/ \E t \in Threads : msi_spin_lock(t)
    \/ \E t \in Threads : msi_lookup(t)
    \/ \E t \in Threads : msi_reserve(t)
    \/ \E t \in Threads : msi_install(t)
    \/ \E t \in Threads : msi_spin_unlock(t)

SpecMsiConc == InitMsiConc /\ [][NextMsiConc]_vars

\* iommu_dma_mapping_error(dev, dma_addr)
iommu_dma_mapping_error(dma_addr) == dma_addr = DMA_ERROR_CODE

\* handles a caller can pass to iommu_dma_free that iommu_dma_alloc never
\* returned: an address below start_pfn, and one inside a host bridge window
StrayHandles == {0, 8}

\* how many intervals the allocator may hold, the host bridge windows and
\* those left behind by a stray handle included, for another buffer to be
\* asked for
MaxIntervals == 2

\* a DMA domain of granule 4 behind a PCI host bridge
FreeConfigs == { <<Domain("IOMMU_DOMAIN_DMA", 4, FALSE), Device(31, TRUE)>> }

InitFree ==
    /\ \E c \in FreeConfigs : domain = c[1] /\ dev = c[2]
    /\ Idle

\* buffers of pages that are not compound allocated and freed, with the right
\* handle or a stray one
NextFree ==
    \/ iommu_get_dma_cookie
    \/ iommu_put_dma_cookie
    \/ \E base \in InitBases, size \in InitSizes : iommu_dma_init_domain(base, size)
    \/ /\ Cardinality(iovad.rbroot) < MaxIntervals
       /\ \E r \in { b \in BufRequests : ~b.comp } :
            iommu_dma_alloc(r.size, r.comp,
                            dma_direction_to_prot("DMA_BIDIRECTIONAL", r.coherent))
    \/ \E h \in held :
         \E handle \in {h.handle} \cup StrayHandles :
           iommu_dma_free_handle(h, handle)

SpecFree == InitFree /\ [][NextFree]_vars

\* __iommu_dma_unmap taking the highest interval of the allocator when
\* find_iova finds none for the address
unmap_falling_back(dma_addr) ==
    LET u == __iommu_dma_unmap(iovad, pgtable, dma_addr)
        top == CHOOSE n \in iovad.rbroot :
                 \A m \in iovad.rbroot : m.pfn_lo <= n.pfn_lo
    IN IF u.found \/ iovad.rbroot = {} THEN u
       ELSE [__iommu_dma_unmap(iovad, pgtable, iova_dma_addr(iovad, top))
               EXCEPT !.found = FALSE]

\* __iommu_dma_unmap(domain, dma_addr) on the domain as it is
unmap_of_address(dma_addr) == __iommu_dma_unmap(iovad, pgtable, dma_addr)

\* iommu_dma_unmap_page(dev, handle, ...) and iommu_dma_unmap_sg(dev, sg, ...)
\* with any device address as handle or as sg_dma_address(sg): one a mapping
\* call returned, the one the unmap before was given, or a stray one
iommu_dma_unmap_addr(op, dma_addr) ==
    /\ Attached
    /\ LET u == unmap_of_address(dma_addr)
       IN /\ iovad' = u.iovad
          /\ pgtable' = u.pgtable
          /\ last' = [Call(op, 0) EXCEPT !.handle = dma_addr,
                        !.prev = PrevOf(last), !.pre_pt = pgtable,
                        !.stage = IF ~u.found THEN "not_found"
                                  ELSE IF u.left > 0 THEN "short" ELSE "none",
                        !.again = /\ last.op \in {"unmap_page", "unmap_sg"}
                                  /\ last.handle = dma_addr]
    /\ held' = { h \in held : h.handle # dma_addr }
    /\ UNCHANGED <<domain, dev, cookie, pagealloc, thr>>

InitStray ==
    /\ \E c \in FreeConfigs : domain = c[1] /\ dev = c[2]
    /\ Idle

\* regions mapped and unmapped, with the address the mapping call returned,
\* with the same address once more, or with a stray one
NextStray ==
    \/ iommu_get_dma_cookie
    \/ iommu_put_dma_cookie
    \/ \E base \in InitBases, size \in InitSizes : iommu_dma_init_domain(base, size)
    \/ /\ Cardinality(iovad.rbroot) < MaxIntervals
       /\ \E r \in MapRequests :
            iommu_dma_map_page(r.phys, r.size,
                               dma_direction_to_prot("DMA_BIDIRECTIONAL", FALSE))
    \/ \E op \in {"unmap_page", "unmap_sg"} :
         \E dma_addr \in { h.handle : h \in held } \cup {last.handle}
                            \cup StrayHandles :
           iommu_dma_unmap_addr(op, dma_addr)

SpecStray == InitStray /\ [][NextStray]_vars

\* <<domain, device>> pairs at the top of the address space: the device can
\* address the whole of dma_addr_t and the aperture of the domain ends at its
\* last byte; granule 2 and 4
TopConfigs ==
    { <<[Domain("IOMMU_DOMAIN_DMA", b, TRUE) EXCEPT
           !.aperture_start = AddrSpace - 16, !.aperture_end = AddrSpace - 1],
        Device(AddrSpace - 1, FALSE)>> : b \in {4, 6} }

TopBases == {AddrSpace - 16}
TopSizes == {8, 16}

InitTop ==
    /\ \E c \in TopConfigs : domain = c[1] /\ dev = c[2]
    /\ Idle

\* every way of obtaining a device address, on one domain
NextTop ==
    \/ iommu_get_dma_cookie
    \/ iommu_put_dma_cookie
    \/ \E base \in TopBases, size \in TopSizes : iommu_dma_init_domain(base, size)
    \/ \E r \in MapRequests :
         iommu_dma_map_page(r.phys, r.size,
                            dma_direction_to_prot("DMA_BIDIRECTIONAL", FALSE))
    \/ \E h \in held : iommu_dma_unmap_page(h)
    \/ \E sg \in SgLists :
         iommu_dma_map_sg(sg, dma_direction_to_prot("DMA_TO_DEVICE", TRUE))
    \/ \E h \in held : iommu_dma_unmap_sg(h)

SpecTop == InitTop /\ [][NextTop]_vars

\* ranges for iommu_dma_init_domain below, across and above the aperture
\* [8, 23] of the domains
ApertureBases == {0, 8, 24}
ApertureSizes == {8, 24}

NextAperture ==
    \/ iommu_get_dma_cookie
    \/ iommu_put_dma_cookie
    \/ \E base \in ApertureBases, size \in ApertureSizes :
         iommu_dma_init_domain(base, size)
    \/ \E size \in AllocSizes, limit \in AllocLimits : do_alloc_iova(size, limit)
    \/ \E h \in held : do_free_iova(h)

SpecAperture == Init /\ [][NextAperture]_vars

\* __iommu_dma_alloc_pages (dma-iommu.c:312-363) one round of its while loop
\* at a time.  thr[1] holds the locals of the call: count, the pages still to
\* get; order, as the last round left it; pages, the array filled so far
\* (i is its length); want, the count the call was given; comp, whether gfp
\* has __GFP_COMP.

IdleLoop == [pc |-> "idle", count |-> 0, order |-> 0, pages |-> <<>>,
             want |-> 0, comp |-> FALSE]

\* the page counts asked for: up to one more than there are page frames
LoopCounts == 1 .. NPhysPages + 1

\* the call up to the while loop: the array is allocated, or the call returns
\* NULL
alloc_pages_enter(count, comp) ==
    /\ thr[1].pc = "idle"
    /\ \E nomem \in BOOLEAN :
         thr' = [thr EXCEPT ![1] =
                   IF nomem THEN [IdleLoop EXCEPT !.pc = "failed", !.want = count,
                                                  !.comp = comp]
                   ELSE [pc |-> "loop", count |-> count, order |-> MAX_ORDER,
                         pages |-> <<>>, want |-> count, comp |-> comp]]
    /\ UNCHANGED <<domain, dev, cookie, iovad, pgtable, pagealloc, held, last>>

\* a round of the while loop that takes nothing off count
round_without_progress ==
    /\ thr[1].pc = "loop" /\ thr[1].count > 0
    /\ \E r \in high_order_pages(Min(thr[1].order, __fls(thr[1].count)), NoPage,
                                  pagealloc, thr[1].comp) :
         /\ pagealloc' = r.pa
         /\ thr' = [thr EXCEPT ![1] = [@ EXCEPT !.order = r.order]]
    /\ UNCHANGED <<domain, dev, cookie, iovad, pgtable, held, last>>

\* one round of while (count): the for loop over the orders, alloc_page when
\* it left no page, and either the release of what was obtained and the
\* return of NULL, or 1 << order entries of the array filled
alloc_pages_round ==
    /\ thr[1].pc = "loop" /\ thr[1].count > 0
    /\ \E r \in high_order_pages(Min(thr[1].order, __fls(thr[1].count)), NoPage,
                                  pagealloc, thr[1].comp) :
         \E b \in IF r.page = NoPage THEN alloc_pages(r.pa, 0)
                   ELSE {[page |-> r.page, pa |-> r.pa]} :
           IF b.page = NoPage
           THEN /\ pagealloc' = __iommu_dma_free_pages(b.pa, thr[1].pages,
                                                        Len(thr[1].pages))
                /\ thr' = [thr EXCEPT ![1] = [@ EXCEPT !.pc = "failed",
                                                       !.order = r.order]]
           ELSE /\ pagealloc' = b.pa
                /\ thr' = [thr EXCEPT ![1] =
                             [@ EXCEPT !.count = @ - 2 ^ r.order,
                                       !.order = r.order,
                                       !.pages = @ \o [k \in 1 .. 2 ^ r.order |->
                                                         b.page + k - 1]]]
    /\ UNCHANGED <<domain, dev, cookie, iovad, pgtable, held, last>>

\* while (count) is over: return pages
alloc_pages_return ==
    /\ thr[1].pc = "loop" /\ thr[1].count = 0
    /\ thr' = [thr EXCEPT ![1] = [@ EXCEPT !.pc = "done"]]
    /\ UNCHANGED <<domain, dev, cookie, iovad, pgtable, pagealloc, held, last>>

\* the caller is done with the array: __iommu_dma_free_pages(pages, count)
\* when it was given one
alloc_pages_release ==
    /\ thr[1].pc \in {"done", "failed"}
    /\ pagealloc' = IF thr[1].pc = "done"
                    THEN __iommu_dma_free_pages(pagealloc, thr[1].pages,
                                                Len(thr[1].pages))
                    ELSE pagealloc
    /\ thr' = [thr EXCEPT ![1] = IdleLoop]
    /\ UNCHANGED <<domain, dev, cookie, iovad, pgtable, held, last>>

InitLoop ==
    /\ \E c \in FreeConfigs : domain = c[1] /\ dev = c[2]
    /\ cookie = NoCookie
    /\ iovad = ZeroIovad
    /\ pgtable = {}
    /\ pagealloc = [p \in PhysPages |-> 0]
    /\ held = {}
    /\ last = NoCall
    /\ thr = <<IdleLoop>>

NextLoop ==
    \/ \E count \in LoopCounts, comp \in BOOLEAN : alloc_pages_enter(count, comp)
    \/ alloc_pages_round
    \/ alloc_pages_return
    \/ alloc_pages_release

SpecLoop == InitLoop /\ [][NextLoop]_vars

\* a call that has begun is not left half way: the CPU goes on to the next
\* round and to the return
SpecLoopFair ==
    SpecLoop /\ WF_vars(alloc_pages_round) /\ WF_vars(alloc_pages_return)

\* iommu_dma_mmap (dma-iommu.c:466-479).  unsigned long (vm_start, vm_end,
\* vm_pgoff, uaddr) is ULongBits wide and unsigned int (i, count) UIntBits
\* wide, the widths of an LP64 build scaled down.

ULongBits == AddrBits
UIntBits == HalfBits

\* the conversion of a value to unsigned int
to_uint(x) == x % 2 ^ UIntBits

\* what vm_insert_page returns: 0, or the error of a failed insertion
InsertErrors == {0 - ENOMEM, 0 - EINVAL, 0 - EFAULT}

\* vm_insert_page(vma, uaddr, page): attempt number n of the call fails with
\* err when n = fail_at
vm_insert_page(n, fail_at, err) == IF n = fail_at THEN err ELSE 0

\* the for loop at lines 472-477 from index i and user address uaddr on; tried
\* holds the insertions attempted so far, each with its result
RECURSIVE mmap_loop(_, _, _, _, _, _, _, _)
mmap_loop(pages, count, vma, i, uaddr, ret, tried, fault) ==
    IF i < count /\ uaddr < vma.vm_end
    THEN LET r == vm_insert_page(Len(tried) + 1, fault.fail_at, fault.err)
             t == Append(tried, [uaddr |-> uaddr, index |-> i,
                                 page |-> pages[i + 1], ret |-> r])
         IN  IF r # 0
             THEN [ret |-> r, tried |-> t]
             ELSE mmap_loop(pages, count, vma, to_uint(i + 1),
                            (uaddr + PAGE_SIZE) % 2 ^ ULongBits, r, t, fault)
    ELSE [ret |-> ret, tried |-> tried]

\* iommu_dma_mmap(pages, size, vma): the value returned and the insertions
\* attempted
mmap_result(pages, size, vma, fault) ==
    mmap_loop(pages, to_uint(PAGE_ALIGN(size) \div PAGE_SIZE), vma,
              to_uint(vma.vm_pgoff), vma.vm_start, 0 - ENXIO, <<>>, fault)

\* the buffers mapped: a page array as iommu_dma_alloc returns it and the size
\* it was allocated for
MmapBuffers ==
    { [pages |-> <<2>>, size |-> 3],
      [pages |-> <<0, 1>>, size |-> 8],
      [pages |-> <<1, 2, 0>>, size |-> 10] }

\* the user areas: page-aligned [vm_start, vm_end) of zero to three pages and
\* a page offset into the buffer, below and above the range of unsigned int
MmapAreas ==
    { [vm_start |-> 4 * PAGE_SIZE, vm_end |-> (4 + n) * PAGE_SIZE,
       vm_pgoff |-> off] :
        n \in 0 .. 3,
        off \in {0, 1, 2, 3, 2 ^ UIntBits, 2 ^ UIntBits + 1} }

IdleMmap == [pc |-> "idle", pages |-> <<>>, size |-> 0,
             vma |-> [vm_start |-> 0, vm_end |-> 0, vm_pgoff |-> 0],
             ret |-> 0, tried |-> <<>>]

\* a driver's mmap handler calls iommu_dma_mmap on a new user area
iommu_dma_mmap(buf, vma) ==
    /\ \E fail_at \in 0 .. Len(buf.pages), err \in InsertErrors :
         LET r == mmap_result(buf.pages, buf.size, vma,
                              [fail_at |-> fail_at, err |-> err])
         IN  thr' = <<[pc |-> "mmap", pages |-> buf.pages, size |-> buf.size,
                       vma |-> vma, ret |-> r.ret, tried |-> r.tried]>>
    /\ UNCHANGED <<domain, dev, cookie, iovad, pgtable, pagealloc, held, last>>

\* the user area is unmapped again
mmap_area_closed ==
    /\ thr[1].pc = "mmap"
    /\ thr' = <<IdleMmap>>
    /\ UNCHANGED <<domain, dev, cookie, iovad, pgtable, pagealloc, held, last>>

InitMmap ==
    /\ \E c \in FreeConfigs : domain = c[1] /\ dev = c[2]
    /\ cookie = NoCookie
    /\ iovad = ZeroIovad
    /\ pgtable = {}
    /\ pagealloc = [p \in PhysPages |-> 0]
    /\ held = {}
    /\ last = NoCall
    /\ thr = <<IdleMmap>>

NextMmap ==
    \/ \E buf \in MmapBuffers, vma \in MmapAreas : iommu_dma_mmap(buf, vma)
    \/ mmap_area_closed

SpecMmap == InitMmap /\ [][NextMmap]_vars

NextIova ==
    \/ iommu_get_dma_cookie
    \/ iommu_put_dma_cookie
    \/ \E base \in InitBases, size \in InitSizes : iommu_dma_init_domain(base, size)
    \/ \E size \in AllocSizes, limit \in AllocLimits : do_alloc_iova(size, limit)
    \/ \E h \in held : do_free_iova(h)

SpecIova == Init /\ [][NextIova]_vars

----------------------------------------------------------------------------
\* Properties

\* the translations installed in the bytes of an allocator interval
InstalledOver(iova) ==
    { e \in pgtable : /\ iova.pfn_lo * iovad.granule <= e.iova
                      /\ e.iova < (iova.pfn_hi + 1) * iovad.granule }


\* the last two calls were a successful map_page and the unmap_page of the
\* address it returned
PageRoundTrip ==
    /\ last.op = "unmap_page"
    /\ last.prev.op = "map_page" /\ last.prev.ok
    /\ last.handle = last.prev.ret

\* C1: a successful iommu_dma_map_page followed immediately by
\* iommu_dma_unmap_page of the returned address leaves the allocator with
\* exactly the intervals it held before the map, and no translation installed
\* over the interval that was mapped.
C1_MapUnmapRestores ==
    PageRoundTrip => /\ iovad.rbroot = last.prev.pre
                     /\ InstalledOver(last.prev.iova) = {}

C1_Witness ==
    /\ PageRoundTrip
    /\ iova_size(last.prev.iova) > 1
    /\ last.handle % iovad.granule # 0
    /\ held # {}

\* the bridge windows iova_reserve_pci_windows reserves, in bus addresses
ReservedWindows ==
    { [lo |-> dev.windows[k].start - dev.windows[k].offset,
       hi |-> dev.windows[k].end - dev.windows[k].offset] :
        k \in { i \in 1 .. Len(dev.windows) :
                  dev.windows[i].type \in {"IORESOURCE_MEM", "IORESOURCE_IO"} } }

InWindow(iova) ==
    \E w \in ReservedWindows :
        /\ iova.pfn_lo * iovad.granule <= w.hi
        /\ w.lo <= (iova.pfn_hi + 1) * iovad.granule - 1

\* C4: whatever was initialised, allocated and freed before, an interval
\* returned by __alloc_iova(size, limit) overlaps no host bridge window
\* reserved when the domain was initialised, and is at least
\* ceil(size / granule) * granule bytes long.
C4_AllocAvoidsReservedAndCovers ==
    (last.op = "alloc_iova" /\ last.ok) =>
        /\ ~InWindow(last.iova)
        /\ iova_size(last.iova) * iovad.granule
             >= CeilDiv(last.alloc_size, iovad.granule) * iovad.granule

C4_Witness ==
    /\ last.op = "alloc_iova" /\ last.ok
    /\ dev.is_pci
    /\ last.alloc_size % iovad.granule # 0
    /\ last.alloc_size > iovad.granule
    /\ Cardinality(held) = 2

----------------------------------------------------------------------------
\* Scatterlist mapping: what a caller sees after iommu_dma_map_sg

SgMapped == last.op = "map_sg" /\ last.ok
SgInstallFailed == last.op = "map_sg" /\ ~last.ok /\ last.stage = "iommu_map_sg"

\* of a segment as the caller passed it: its offset within a granule, and the
\* granule-rounded length that covers it
SubOffset(s) == iova_offset(iovad, s.offset)
Rounded(s) == iova_align(iovad, s.length + SubOffset(s))

\* where segment i's granules start within the interval: after segment i - 1,
\* at the next multiple of segment i's size rounded up to a power of two
RECURSIVE SegStart(_, _)
SegStart(sg, i) ==
    IF i = 1 THEN 0
    ELSE ALIGN(SegStart(sg, i - 1) + Rounded(sg[i - 1]),
               roundup_pow_of_two(Rounded(sg[i])))

\* the padding added to segment i
Padding(sg, i) ==
    IF i < Len(sg) THEN SegStart(sg, i + 1) - SegStart(sg, i) - Rounded(sg[i])
    ELSE 0

\* the bytes between the end of segment i - 1's device range and the start of
\* segment i's
SgGap(i) ==
    last.sg_out[i].dma_address
      - (last.sg_out[i - 1].dma_address + last.sg_in[i - 1].length)

\* C2 as stated: after a successful iommu_dma_map_sg the device range of each
\* segment, [dma address, dma address + original length), starts exactly
\* where the range of the previous segment ends
C2_RangesAbut ==
    SgMapped => \A i \in 2 .. Len(last.sg_out) : SgGap(i) = 0

\* C2, amended: after a successful iommu_dma_map_sg the device range of each
\* segment starts at or after the end of the previous segment's range (no
\* overlap, list order kept); the gap between them is the unused tail of the
\* previous segment's last granule, plus the padding added to the previous
\* segment, plus this segment's offset within its first granule, so the
\* ranges abut only when all three are zero
C2_RangesOrderedGapFromRounding ==
    SgMapped =>
      \A i \in 2 .. Len(last.sg_out) :
        /\ SgGap(i) >= 0
        /\ SgGap(i) = (Rounded(last.sg_in[i - 1]) - SubOffset(last.sg_in[i - 1])
                         - last.sg_in[i - 1].length)
                      + Padding(last.sg_in, i - 1)
                      + SubOffset(last.sg_in[i])

\* a two-segment list was mapped and its device ranges do not abut
C2_Witness ==
    /\ SgMapped
    /\ Len(last.sg_out) = 2
    /\ SgGap(2) > 0
    /\ last.sg_in[1].length > 0

C9_SegmentAddressFromPrefix ==
    SgMapped =>
      \A i \in 1 .. Len(last.sg_out) :
        last.sg_out[i].dma_address =
          iova_dma_addr(iovad, last.iova) + SegStart(last.sg_in, i)
            + SubOffset(last.sg_in[i])

\* a two-segment list was mapped, the first segment was padded, and both
\* segments start inside a granule
C9_Witness ==
    /\ SgMapped
    /\ Len(last.sg_out) = 2
    /\ Padding(last.sg_in, 1) > 0
    /\ SubOffset(last.sg_in[1]) > 0
    /\ SubOffset(last.sg_in[2]) > 0
    /\ last.sg_out[1].dma_address =
         iova_dma_addr(iovad, last.iova) + SubOffset(last.sg_in[1])

----------------------------------------------------------------------------
\* Buffer allocation: what a caller sees after iommu_dma_alloc

BufAllocated == last.op = "alloc" /\ last.ok
BufFailed == last.op = "alloc" /\ ~last.ok

\* the page frames the call took a reference on and still holds
PagesAcquired == { p \in PhysPages : pagealloc[p] > last.pre_pa[p] }

\* C6: when iommu_dma_alloc fails, at whichever step, the allocator holds the
\* intervals it held before the call, every page frame has the reference
\* count it had before the call, the translations are those installed before
\* the call, the result is NULL and the handle is DMA_ERROR_CODE
C6_FailedAllocUnwinds ==
    BufFailed =>
      /\ iovad.rbroot = last.pre
      /\ pagealloc = last.pre_pa
      /\ pgtable = last.pre_pt
      /\ last.pages = NullPages
      /\ last.handle = DMA_ERROR_CODE

\* C7: a successful iommu_dma_alloc of size bytes holds exactly
\* ceil(size / PAGE_SIZE) page frames it did not hold before, has added one
\* interval of ceil(size / granule) granules to the allocator, and returns the
\* address of that interval's base as the handle
C7_AllocPagesIntervalHandle ==
    BufAllocated =>
      /\ Len(last.pages) = CeilDiv(last.size, PAGE_SIZE)
      /\ Cardinality(PagesAcquired) = CeilDiv(last.size, PAGE_SIZE)
      /\ last.iova \notin last.pre
      /\ iovad.rbroot = last.pre \cup {last.iova}
      /\ iova_size(last.iova) * iovad.granule
           = CeilDiv(last.size, iovad.granule) * iovad.granule
      /\ last.handle = iova_dma_addr(iovad, last.iova)

\* C8: when iommu_dma_alloc fails because __iommu_dma_alloc_pages returned
\* NULL, the result is NULL, the handle is DMA_ERROR_CODE, no interval was
\* asked for and the allocator holds the intervals it held before the call
C8_NoPagesNoReservation ==
    (last.op = "alloc" /\ last.stage = "alloc_pages") =>
      /\ ~last.ok
      /\ last.pages = NullPages
      /\ last.handle = DMA_ERROR_CODE
      /\ last.iova = NoIova
      /\ iovad.rbroot = last.pre

\* a three-page request got no page at all while the allocator had room and
\* already held an interval
C8_Witness ==
    /\ last.op = "alloc"
    /\ last.stage = "alloc_pages"
    /\ last.size = 10
    /\ pagealloc = last.pre_pa
    /\ \E b \in held : b.kind = "buf"
    /\ __alloc_iova(iovad, last.size, dev.coherent_dma_mask) # {NoIova}

----------------------------------------------------------------------------
\* MSI doorbells: what a caller sees after iommu_dma_map_msi_msg

\* C10: once iommu_dma_get_msi_page has returned a page for an address of a
\* doorbell granule, every later call on the same cookie for an address of
\* that granule returns a page with the same IOVA, and leaves the allocator's
\* intervals, the cookie's msi_iova and the cookie's msi_page_list as they
\* were before the call
C10_RepeatDoorbellReuses ==
    (last.op = "map_msi_msg" /\ last.known # {}) =>
      /\ last.ok
      /\ last.known = {last.handle}
      /\ iovad.rbroot = last.pre
      /\ cookie.msi_iova = last.pre_cookie.msi_iova
      /\ cookie.msi_page_list = last.pre_cookie.msi_page_list

\* a doorbell was asked for at another address of a granule that already had
\* one, on a cookie that has handed out two doorbells
C10_Witness ==
    /\ last.op = "map_msi_msg"
    /\ last.known # {}
    /\ last.phys % cookie_msi_granule(cookie, iovad) # 0
    /\ Cardinality(last.doorbells) = 2
    /\ Len(cookie.msi_page_list) = 2

----------------------------------------------------------------------------
\* Concurrent callers: who owns which device addresses

\* the intervals of the calls in progress
ThreadsHolding == { t \in DOMAIN thr : thr[t].iova # NoIova }

\* C5: under any interleaving of iommu_dma_map_page, iommu_dma_map_sg,
\* iommu_dma_alloc, doorbell creation and the matching unmap and free calls
\* of several threads on one domain, the intervals of the mappings callers
\* hold are pairwise disjoint; so are the intervals of the calls in progress,
\* which own theirs from __alloc_iova to __free_iova, from each other and
\* from those of the mappings held
C5_OwnedIntervalsDisjoint ==
    /\ \A a, b \in held : a # b => ~Overlaps(a.iova, b.iova)
    /\ \A t \in ThreadsHolding : \A h \in held : ~Overlaps(thr[t].iova, h.iova)
    /\ \A t, u \in ThreadsHolding : t # u => ~Overlaps(thr[t].iova, thr[u].iova)

\* one thread is about to install a mapping while another, part-way through
\* unmapping one of another kind, still has its interval in the allocator
C5_Witness ==
    /\ \E t, u \in DOMAIN thr :
         /\ thr[t].pc = "install"
         /\ thr[u].pc = "free"
         /\ thr[t].kind # thr[u].kind
    /\ iovad.rbroot # {}

----------------------------------------------------------------------------
\* Doorbells: failed creation and the rewritten message

\* the 64-bit target address of an interrupt message
MsgAddress(msg) == msg.address_hi * HalfSpace + msg.address_lo

\* the last call was iommu_dma_map_msi_msg on a domain that has a cookie
MsiCalled == last.op = "map_msi_msg" /\ last.stage # "no_cookie"

\* C12: when the doorbell is not in the cache and installing its one-granule
\* translation fails, the call fails with the reservation rolled back: the
\* allocator's set of intervals (IOVA cookie) and the cursor (MSI cookie) are
\* what they were before the call, and the cache has no new entry
C12_FailedInstallRollsBack ==
    (MsiCalled /\ last.stage = "iommu_map") =>
      /\ ~last.ok
      /\ last.known = {}
      /\ iovad.rbroot = last.pre
      /\ cookie.msi_iova = last.pre_cookie.msi_iova
      /\ cookie.msi_page_list = last.pre_cookie.msi_page_list

\* the install failed for a second doorbell on an MSI cookie whose cursor had
\* already moved past the first
C12_Witness ==
    /\ MsiCalled
    /\ last.stage = "iommu_map"
    /\ cookie.type = "IOMMU_DMA_MSI_COOKIE"
    /\ Len(cookie.msi_page_list) = 1
    /\ cookie.msi_iova = cookie.msi_page_list[1].iova + PAGE_SIZE

\* C13: on success the message's address is the doorbell entry's device
\* address plus the original address modulo the granule: the high word is the
\* upper half of the device address, the bits of the low word below the granule
\* are the original's, and the data word is untouched
C13_RewrittenAddress ==
    (MsiCalled /\ last.ok) =>
      LET granule == cookie_msi_granule(cookie, iovad)
      IN /\ MsgAddress(last.msg_out) = last.handle + (last.phys % granule)
         /\ last.msg_out.address_hi = last.handle \div HalfSpace
         /\ last.msg_out.address_lo % granule
              = last.msg_in.address_lo % granule
         /\ last.msg_out.data = last.msg_in.data

\* a message whose low word has bits both below and above the granule was
\* rewritten for a newly created doorbell
C13_Witness ==
    /\ MsiCalled
    /\ last.ok
    /\ last.stage = "none"
    /\ last.msg_in.address_lo % cookie_msi_granule(cookie, iovad) # 0
    /\ last.msg_in.address_lo >= cookie_msi_granule(cookie, iovad)
    /\ MsgAddress(last.msg_out) # MsgAddress(last.msg_in)

\* C14: when the domain has a cookie and no doorbell entry is obtained (the
\* entry, the interval or the install failed), both address words and the data
\* word of the message are all-ones, and the address is not the original one
C14_FailureFillsAllOnes ==
    (MsiCalled /\ ~last.ok) =>
      /\ last.stage \in {"kzalloc", "alloc_iova", "iommu_map"}
      /\ last.msg_out = [address_hi |-> AllOnes, address_lo |-> AllOnes,
                         data |-> AllOnes]
      /\ MsgAddress(last.msg_out) # MsgAddress(last.msg_in)

\* the interval for the doorbell could not be reserved, with one doorbell
\* already in the cache
C14_Witness ==
    /\ MsiCalled
    /\ ~last.ok
    /\ last.stage = "alloc_iova"
    /\ Len(cookie.msi_page_list) = 1
    /\ last.msg_out.data = AllOnes

----------------------------------------------------------------------------
\* Initialising a domain again

\* the last call was iommu_dma_init_domain on an allocator that had been
\* initialised before
Reinitialised == last.op = "init_domain" /\ last.pre_iovad.start_pfn # 0

\* the page numbers the last iommu_dma_init_domain asked for: base and size in
\* granules of the domain, cut to a forced aperture
RequestedPfns ==
    LET g == min_pagesz
        lo == Max(1, last.phys \div g)
        hi == (last.phys + last.size - 1) \div g
    IN IF domain.force_aperture
       THEN [base |-> Max(lo, domain.aperture_start \div g),
             end |-> Min(hi, domain.aperture_end \div g), granule |-> g]
       ELSE [base |-> lo, end |-> hi, granule |-> g]

\* the intervals of an allocator that lie inside its range
InsideRange(iovad_) ==
    { n \in iovad_.rbroot :
        iovad_.start_pfn <= n.pfn_lo /\ n.pfn_hi <= iovad_.dma_32bit_pfn }

\* C15: initialising an initialised allocator again succeeds only with the
\* granule and base page number it has and an end not below its limit, and
\* then only the limit changes, to the new end; otherwise the call fails and
\* the allocator is as it was.  Granule and base stay, the limit does not
\* decrease, and the intervals that were inside the range still are.
C15_ReinitOnlyEnlarges ==
    Reinitialised =>
      LET old == last.pre_iovad
          req == RequestedPfns
      IN /\ last.ok =>
              /\ req.granule = old.granule
              /\ req.base = old.start_pfn
              /\ req.end >= old.dma_32bit_pfn
              /\ iovad = [old EXCEPT !.dma_32bit_pfn = req.end]
         /\ ~last.ok => iovad = old
         /\ iovad.granule = old.granule
         /\ iovad.start_pfn = old.start_pfn
         /\ iovad.dma_32bit_pfn >= old.dma_32bit_pfn
         /\ iovad.rbroot = old.rbroot
         /\ InsideRange(old) \subseteq InsideRange(iovad)

\* a domain with a mapping outstanding was enlarged
C15_Witness ==
    /\ Reinitialised
    /\ last.ok
    /\ held # {}
    /\ iovad.dma_32bit_pfn > last.pre_iovad.dma_32bit_pfn
    /\ InsideRange(iovad) # {}

----------------------------------------------------------------------------
\* Mapping one region

\* the translations from device address base to physical address paddr over
\* length bytes, granule by granule, that the page table holds
TranslatedOver(base, paddr, length) ==
    { k \in 0 .. (length \div iovad.granule) - 1 :
        \E e \in pgtable : /\ e.iova = base + k * iovad.granule
                           /\ e.paddr = paddr + k * iovad.granule }

\* C17: iommu_dma_map_page of a region at phys, with offset = phys mod granule,
\* asks for an interval of roundup(size + offset, granule) bytes; on success
\* the interval is of that length and new, the translation from its base to
\* phys - offset is installed over the whole length, and the result is
\* base + offset; when the interval is reserved and the install fails, the
\* interval is freed and the result is DMA_ERROR_CODE
C17_MapPageReservesInstallsOffsets ==
    (last.op = "map_page") =>
      LET g == iovad.granule
          offset == last.phys % g
          len == ((last.size + offset + g - 1) \div g) * g
          base == last.iova.pfn_lo * g
      IN /\ last.alloc_size = len
         /\ last.ok =>
              /\ last.iova # NoIova
              /\ (last.iova.pfn_hi - last.iova.pfn_lo + 1) * g = len
              /\ last.iova \notin last.pre
              /\ iovad.rbroot = last.pre \cup {last.iova}
              /\ TranslatedOver(base, last.phys - offset, len)
                   = 0 .. (len \div g) - 1
              /\ last.ret = base + offset
         /\ ~last.ok =>
              /\ last.ret = DMA_ERROR_CODE
              /\ iovad.rbroot = last.pre
              /\ last.iova # NoIova => InstalledOver(last.iova) = {}

\* a region that starts inside a granule and ends in the next one was mapped
C17_Witness ==
    /\ last.op = "map_page"
    /\ last.ok
    /\ last.phys % iovad.granule # 0
    /\ last.alloc_size >= 2 * iovad.granule
    /\ last.size < last.alloc_size
    /\ last.pre # {}

----------------------------------------------------------------------------
\* The error value

\* the device address the last call handed to its caller
HandedOut ==
    CASE last.op = "map_page" -> last.ret
      [] last.op = "map_sg" -> last.sg_out[1].dma_address
      [] last.op = "alloc" -> last.handle
      [] last.op = "map_msi_msg" -> last.handle
      [] OTHER -> 0

\* the last call mapped something and succeeded
MappedSomething ==
    /\ last.op \in {"map_page", "map_sg", "alloc", "map_msi_msg"}
    /\ last.ok

\* C16: no successful iommu_dma_map_page, iommu_dma_alloc, iommu_dma_map_sg or
\* doorbell creation hands out DMA_ERROR_CODE, the one address for which
\* iommu_dma_mapping_error is true
C16_SuccessNeverErrorCode ==
    /\ \A a \in 0 .. AddrSpace - 1 :
         iommu_dma_mapping_error(a) <=> a = DMA_ERROR_CODE
    /\ MappedSomething => ~iommu_dma_mapping_error(HandedOut)

----------------------------------------------------------------------------
\* Scatter-gather lists: unmapping, alignment of the segments, failure

\* the last two calls were a successful map_sg and the unmap_sg of the list it
\* mapped, which passes the device address of the first segment
SgRoundTrip ==
    /\ last.op = "unmap_sg"
    /\ last.prev.op = "map_sg" /\ last.prev.ok
    /\ last.handle \div iovad.granule = last.prev.iova.pfn_lo

\* C18: iommu_dma_unmap_sg right after a successful iommu_dma_map_sg, given
\* only the device address of the first segment, uninstalls and frees the
\* whole interval of the list: the allocator holds the intervals it held
\* before the map and nothing is installed over the interval, however many
\* segments, offsets and paddings the list had
C18_SgUnmapFreesWholeInterval ==
    SgRoundTrip =>
      /\ last.prev.iova \notin iovad.rbroot
      /\ iovad.rbroot = last.prev.pre
      /\ \A e \in pgtable :
           e.iova \div iovad.granule \notin
             last.prev.iova.pfn_lo .. last.prev.iova.pfn_hi

\* a list whose interval has more than two granules, mapped at an address
\* inside a granule, was unmapped while another mapping was outstanding
C18_Witness ==
    /\ SgRoundTrip
    /\ last.prev.iova.pfn_hi - last.prev.iova.pfn_lo >= 2
    /\ last.handle % iovad.granule # 0
    /\ held # {}

\* where the granules of segment i of the mapped list start: its device
\* address less its offset within a granule
TransformedStart(i) == last.sg_out[i].dma_address - SubOffset(last.sg_in[i])

\* C19: after a successful iommu_dma_map_sg whose interval starts at a
\* multiple of the power-of-two round-up of the total length, the granules of
\* every segment start at a multiple of the power-of-two round-up of the
\* segment's granule-rounded length
C19_SegmentsNaturallyAligned ==
    (SgMapped /\ iova_dma_addr(iovad, last.iova)
                   % roundup_pow_of_two(last.alloc_size) = 0) =>
      \A i \in 1 .. Len(last.sg_out) :
        TransformedStart(i) % roundup_pow_of_two(Rounded(last.sg_in[i])) = 0

\* a two-segment list was mapped whose first segment had to be padded for the
\* second, larger one
C19_Witness ==
    /\ SgMapped
    /\ iova_dma_addr(iovad, last.iova) % roundup_pow_of_two(last.alloc_size) = 0
    /\ Len(last.sg_out) = 2
    /\ Rounded(last.sg_in[2]) > Rounded(last.sg_in[1])
    /\ TransformedStart(2) - TransformedStart(1) > Rounded(last.sg_in[1])

\* C20: when no interval can be reserved, or iommu_map_sg reports fewer bytes
\* than the total length, iommu_dma_map_sg returns 0, the interval (if one was
\* reserved) is free again, and the allocator holds exactly the intervals it
\* held before the call
C20_SgFailureIsComplete ==
    (last.op = "map_sg" /\ ~last.ok) =>
      /\ last.stage \in {"alloc_iova", "iommu_map_sg"}
      /\ last.ret = 0
      /\ last.stage = "alloc_iova" <=> last.iova = NoIova
      /\ last.iova \notin iovad.rbroot
      /\ iovad.rbroot = last.pre

\* iommu_map_sg fell short on a two-segment list, with an interval of another
\* mapping in the allocator
C20_Witness ==
    /\ last.op = "map_sg"
    /\ ~last.ok
    /\ last.stage = "iommu_map_sg"
    /\ last.iova # NoIova
    /\ Len(last.sg_in) = 2
    /\ held # {}

----------------------------------------------------------------------------
\* Concurrent doorbell requests

\* the callers past the reservation and not yet past the install
MsiReserving == { t \in Threads : thr[t].pc = "install" }

\* the intervals handed out by the allocator: those that do not cover a
\* host bridge window
HandedOutIntervals == { n \in iovad.rbroot : ~InWindow(n) }

\* C11: with concurrent iommu_dma_map_msi_msg calls on one domain, lookup and
\* insertion happen one caller at a time: the cache never has two entries for
\* one granule-aligned physical address, all callers for one granule get the
\* same device address, and there is one reservation per cache entry: the
\* allocator's intervals (IOVA cookie) or the cursor (MSI cookie) account for
\* the entries and for the caller between reserving and installing
C11_DoorbellCacheAtomic ==
    /\ Cardinality({ t \in Threads : thr[t].pc \in MsiLockedPcs }) <= 1
    /\ \A i, j \in 1 .. Len(cookie.msi_page_list) :
         cookie.msi_page_list[i].phys = cookie.msi_page_list[j].phys => i = j
    /\ \A d, e \in last.doorbells : d.granule = e.granule => d.iova = e.iova
    /\ \A t \in Threads, d \in last.doorbells :
         (thr[t].pc = "unlock" /\ thr[t].ok
            /\ d.granule = MsiGranuleOf(MsiAddrOf(t))) => d.iova = thr[t].dma
    /\ cookie.type = "IOMMU_DMA_IOVA_COOKIE" =>
         /\ Cardinality(HandedOutIntervals)
              = Len(cookie.msi_page_list) + Cardinality(MsiReserving)
         /\ \A i \in 1 .. Len(cookie.msi_page_list) :
              \E n \in HandedOutIntervals :
                iova_dma_addr(iovad, n) = cookie.msi_page_list[i].iova
    /\ cookie.type = "IOMMU_DMA_MSI_COOKIE" =>
         \E base \in MsiBases :
           cookie.msi_iova = base + PAGE_SIZE * (Len(cookie.msi_page_list)
                                                  + Cardinality(MsiReserving))

\* a caller got the address of a doorbell's entry while another caller, for
\* another address of the same granule, waits for the lock, and the cache
\* holds that one entry
C11_Witness ==
    \E t, u \in Threads :
      /\ thr[t].pc = "unlock" /\ thr[t].ok
      /\ thr[u].pc = "lock"
      /\ MsiAddrOf(t) # MsiAddrOf(u)
      /\ MsiGranuleOf(MsiAddrOf(t)) = MsiGranuleOf(MsiAddrOf(u))
      /\ \E d \in last.doorbells :
           d.granule = MsiGranuleOf(MsiAddrOf(t)) /\ d.iova = thr[t].dma
      /\ Len(cookie.msi_page_list) = 1

----------------------------------------------------------------------------
\* Page acquisition

\* C21: every page frame in the array a successful iommu_dma_alloc returns is
\* a frame the call took and still holds: it was free before the call and has
\* one reference now, and no frame is in the array twice; a block released
\* after a failed split_huge_page is not among them
C21_StoredPagesOwned ==
    BufAllocated =>
      /\ \A i \in 1 .. Len(last.pages) :
           /\ last.pre_pa[last.pages[i]] = 0
           /\ pagealloc[last.pages[i]] = 1
      /\ \A i, j \in 1 .. Len(last.pages) :
           last.pages[i] = last.pages[j] => i = j

\* C22: when __iommu_dma_alloc_pages gives up because a single-page request
\* failed, the page frames it had obtained in the call are released, each
\* once: every frame has the reference count it had before the call
C22_FailedAcquisitionReleasesOnce ==
    (last.op = "alloc" /\ last.stage = "alloc_pages") =>
      /\ ~last.ok
      /\ \A p \in PhysPages : pagealloc[p] = last.pre_pa[p]

----------------------------------------------------------------------------
\* Freeing a buffer

\* how often page frame p is in the array of the buffer that was freed
TimesInPages(p) ==
    Cardinality({ i \in 1 .. Len(last.pages) : last.pages[i] = p })

\* C23: iommu_dma_free releases every entry of the buffer's page array once
\* and leaves DMA_ERROR_CODE in the handle, whether __iommu_dma_unmap found
\* the interval and uninstalled all of it, found no interval, or uninstalled
\* less than the interval's length
C23_FreeAlwaysReleases ==
    (last.op = "free") =>
      /\ last.handle = DMA_ERROR_CODE
      /\ Len(last.pages) = CeilDiv(last.size, PAGE_SIZE)
      /\ \A p \in PhysPages : pagealloc[p] = last.pre_pa[p] - TimesInPages(p)

\* a three-page buffer was freed with a handle inside a host bridge window,
\* where an interval is found and nothing is installed
C23_Witness ==
    /\ last.op = "free"
    /\ last.stage = "short"
    /\ Len(last.pages) = 3
    /\ \A i \in 1 .. 3 : pagealloc[last.pages[i]] = 0
    /\ pgtable = last.pre_pt

\* ---------------------------------------------------------------------------
\* C24
\* ---------------------------------------------------------------------------

\* the frames of the flush_page calls of the last call, in call order
FlushedInOrder ==
    LET f == SelectSeq(last.events, LAMBDA c : c.ev = "flush_page")
    IN [k \in 1 .. Len(f) |-> f[k].page]

\* the last iommu_dma_alloc got as far as its table of pages
BufTableBuilt == last.op = "alloc" /\ last.stage \in {"none", "iommu_map_sg"}

\* C24: an iommu_dma_alloc whose prot lacks IOMMU_CACHE calls flush_page once
\* for each page of the buffer, and every such call is made before
\* iommu_map_sg is called; one whose prot has IOMMU_CACHE never calls
\* flush_page; a call that fails before its table is built calls neither
C24_FlushBeforeInstall ==
    last.op = "alloc" =>
      /\ "IOMMU_CACHE" \in last.prot => FlushedInOrder = <<>>
      /\ (BufTableBuilt /\ "IOMMU_CACHE" \notin last.prot) =>
           /\ Len(FlushedInOrder) = CeilDiv(last.size, PAGE_SIZE)
           /\ last.ok => FlushedInOrder = last.pages
      /\ \A i, j \in 1 .. Len(last.events) :
           (last.events[i].ev = "flush_page" /\ last.events[j].ev = "iommu_map_sg")
             => i < j
      /\ ~BufTableBuilt => last.events = <<>>

C24_Witness ==
    /\ BufAllocated
    /\ "IOMMU_CACHE" \notin last.prot
    /\ Len(FlushedInOrder) = 3
    /\ last.events[4].ev = "iommu_map_sg"
    /\ pgtable # last.pre_pt

\* ---------------------------------------------------------------------------
\* C25
\* ---------------------------------------------------------------------------

\* the step is a call of iommu_get_dma_cookie or iommu_get_msi_cookie
GetCookieStep ==
    last' # last /\ last'.op \in {"get_dma_cookie", "get_msi_cookie"}

\* the call left the cookie, its allocator, its cursor and its doorbells alone
CookieUntouched ==
    /\ cookie' = cookie
    /\ iovad' = iovad
    /\ pgtable' = pgtable
    /\ last'.doorbells = last.doorbells

\* a domain's cookie is never exchanged for one of the other kind
KindKept ==
    (cookie.type # "NONE" /\ cookie'.type # "NONE") => cookie'.type = cookie.type

\* C25 as stated: iommu_get_dma_cookie and iommu_get_msi_cookie on a domain
\* that has a cookie return -EEXIST and leave the cookie unchanged, and
\* iommu_get_msi_cookie on a domain that is not unmanaged returns -EINVAL and
\* attaches nothing
C25_SecondCookieIsEEXIST ==
    [][ /\ KindKept
        /\ GetCookieStep =>
             /\ cookie.type # "NONE" =>
                  (last'.ret = -EEXIST /\ CookieUntouched)
             /\ (last'.op = "get_msi_cookie"
                   /\ domain.type # "IOMMU_DOMAIN_UNMANAGED") =>
                  (last'.ret = -EINVAL /\ CookieUntouched) ]_vars

\* C25: a domain's cookie never changes kind; iommu_get_msi_cookie on a domain
\* that is not unmanaged returns -EINVAL whether or not the domain has a
\* cookie; every other iommu_get_dma_cookie or iommu_get_msi_cookie on a
\* domain that has a cookie returns -EEXIST; in both cases the cookie, its
\* allocator, its cursor and its doorbells are unchanged
C25_SecondCookieRefused ==
    [][ /\ KindKept
        /\ GetCookieStep =>
             LET wrong_type == /\ last'.op = "get_msi_cookie"
                               /\ domain.type # "IOMMU_DOMAIN_UNMANAGED"
             IN /\ wrong_type => (last'.ret = -EINVAL /\ CookieUntouched)
                /\ (cookie.type # "NONE" /\ ~wrong_type) =>
                     (last'.ret = -EEXIST /\ CookieUntouched) ]_vars

C25_Witness ==
    /\ last.op \in {"get_dma_cookie", "get_msi_cookie"}
    /\ last.ret = -EEXIST
    /\ cookie.msi_page_list # <<>>
    /\ last.doorbells # {}

\* ---------------------------------------------------------------------------
\* C26
\* ---------------------------------------------------------------------------

\* the step is a call of iommu_put_dma_cookie
PutCookieStep == last' # last /\ last'.op = "put_dma_cookie"

\* C26: after iommu_put_dma_cookie the domain has no cookie, no doorbell is
\* cached and the allocator holds nothing; on a domain without a cookie the
\* call changes nothing; the next iommu_get_dma_cookie or iommu_get_msi_cookie
\* on the domain does not find a cookie in its way, and the cookie it attaches
\* has an empty doorbell cache and an allocator that is not initialised
C26_PutThenGet ==
    [][ /\ PutCookieStep =>
             /\ cookie' = NoCookie
             /\ cookie'.msi_page_list = <<>>
             /\ last'.doorbells = {}
             /\ iovad' = ZeroIovad
             /\ cookie.type = "NONE" =>
                  /\ UNCHANGED <<domain, dev, cookie, iovad, pgtable,
                                 pagealloc, held, thr>>
                  /\ last'.doorbells = last.doorbells
        /\ (last.op = "put_dma_cookie" /\ GetCookieStep) =>
             /\ last'.ret \in {0, -ENOMEM, -EINVAL}
             /\ last'.ret = -EINVAL =>
                  /\ last'.op = "get_msi_cookie"
                  /\ domain.type # "IOMMU_DOMAIN_UNMANAGED"
             /\ last'.ret = 0 =>
                  /\ cookie'.type # "NONE"
                  /\ cookie'.msi_page_list = <<>>
                  /\ last'.doorbells = {}
                  /\ iovad' = ZeroIovad ]_vars

C26_Witness ==
    /\ last.op = "put_dma_cookie"
    /\ last.pre_cookie.type = "IOMMU_DMA_IOVA_COOKIE"
    /\ last.pre_cookie.msi_page_list # <<>>
    /\ last.pre # {}
    /\ cookie = NoCookie
    /\ iovad.rbroot = {}

\* ---------------------------------------------------------------------------
\* C27
\* ---------------------------------------------------------------------------

\* the step is a call of iommu_dma_init_domain
InitDomainStep == last' # last /\ last'.op = "init_domain"

\* C27: iommu_dma_init_domain on a domain that has no cookie or an MSI cookie
\* returns -EINVAL and leaves the cookie, the allocator and the translations
\* as they were
C27_InitNeedsIovaCookie ==
    [][ (InitDomainStep /\ cookie.type # "IOMMU_DMA_IOVA_COOKIE") =>
          /\ last'.ret = -EINVAL
          /\ cookie' = cookie
          /\ iovad' = iovad
          /\ pgtable' = pgtable
          /\ last'.doorbells = last.doorbells ]_vars

C27_Witness ==
    /\ last.op = "init_domain"
    /\ last.ret = -EINVAL
    /\ cookie.type = "IOMMU_DMA_MSI_COOKIE"
    /\ cookie.msi_page_list # <<>>
    /\ iovad = ZeroIovad

\* ---------------------------------------------------------------------------
\* C28
\* ---------------------------------------------------------------------------

\* the last call was an iommu_dma_map_page that got an interval and installed
\* its translation
PageMapped == last.op = "map_page" /\ last.ok

\* C28: right after a call has been given an interval by the allocator,
\* find_iova on the interval's first page returns that interval, start and
\* length; so __iommu_dma_unmap of the address the call returned, which is
\* told no length, uninstalls the granules of the interval, all of them and
\* no others, and gives the interval back
C28_FindReturnsAllocated ==
    PageMapped =>
      LET found == find_iova(iovad, last.iova.pfn_lo)
          u == __iommu_dma_unmap(iovad, pgtable, last.ret)
      IN /\ found # NoIova
         /\ found.pfn_lo = last.iova.pfn_lo
         /\ iova_size(found) = iova_size(last.iova)
         /\ iova_size(found) * iovad.granule = iova_align(iovad, last.alloc_size)
         /\ find_iova(iovad, iova_pfn(iovad, last.ret)) = found
         /\ u.found /\ u.left = 0
         /\ pgtable \ u.pgtable = InstalledOver(last.iova)
         /\ Cardinality(pgtable \ u.pgtable) * iovad.granule
              = iova_align(iovad, last.alloc_size)
         /\ u.iovad.rbroot = last.pre

C28_Witness ==
    /\ PageMapped
    /\ iova_size(last.iova) >= 2
    /\ last.ret # iova_dma_addr(iovad, last.iova)
    /\ Cardinality(iovad.rbroot) >= 2
    /\ Cardinality(InstalledOver(last.iova)) = iova_size(last.iova)

\* ---------------------------------------------------------------------------
\* C29
\* ---------------------------------------------------------------------------

\* the intervals of the allocator that hold the device address
IntervalsOver(addr) ==
    { n \in iovad.rbroot : /\ n.pfn_lo * iovad.granule <= addr
                           /\ addr < (n.pfn_hi + 1) * iovad.granule }

\* the intervals a caller holds a mapping on, or is installing or uninstalling
\* the translation of
IntervalsInUse ==
    { h.iova : h \in held }
      \cup { thr[t].iova : t \in { u \in DOMAIN thr : thr[u].pc \in {"install", "unmap"} } }

\* C29: in every state, however the callers' steps are interleaved, every
\* translation installed in the domain lies in an interval the allocator has
\* marked allocated, and that interval belongs to a mapping a caller holds
\* or to a call that is installing or uninstalling it
C29_TranslationsInsideIntervals ==
    \A e \in pgtable :
      /\ IntervalsOver(e.iova) # {}
      /\ IntervalsOver(e.iova) \subseteq IntervalsInUse

C29_Witness ==
    \E t, u \in DOMAIN thr :
      /\ thr[t].pc = "unmap" /\ thr[u].pc = "install"
      /\ InstalledOver(thr[t].iova) # {}
      /\ InstalledOver(thr[u].iova) = {}
      /\ {thr[t].iova, thr[u].iova} \subseteq iovad.rbroot

\* ---------------------------------------------------------------------------
\* C30
\* ---------------------------------------------------------------------------

\* the last iommu_dma_map_sg failed, at the reservation or at the install
SgFailed == last.op = "map_sg" /\ ~last.ok

C31_SuccessRestoresSegments ==
    SgMapped =>
      /\ last.ret = Len(last.sg_in)
      /\ Len(last.sg_out) = Len(last.sg_in)
      /\ \A i \in 1 .. Len(last.sg_in) :
           /\ last.sg_out[i].page = last.sg_in[i].page
           /\ last.sg_out[i].offset = last.sg_in[i].offset
           /\ last.sg_out[i].length = last.sg_in[i].length
           /\ last.sg_out[i].dma_length = last.sg_in[i].length

\* a list was mapped whose first segment was padded and whose second segment
\* was moved back to a granule boundary and rounded, and came in with a stale
\* DMA length
C31_Witness ==
    /\ SgMapped
    /\ last.ret = 2
    /\ Padding(last.sg_in, 1) > 0
    /\ SubOffset(last.sg_in[2]) # 0
    /\ Rounded(last.sg_in[2]) # last.sg_in[2].length
    /\ last.sg_in[2].dma_length # last.sg_in[2].length
    /\ last.sg_out[2].dma_length = last.sg_in[2].length

\* ---------------------------------------------------------------------------
\* C32
\* ---------------------------------------------------------------------------

\* the list of the last iommu_dma_map_sg as its first loop left it
FirstPass == sg_first_pass(last.sg_in, 1, 0)

\* the running total when the first loop comes to segment i
RunningTotal(i) == sg_first_pass(SubSeq(last.sg_in, 1, i - 1), 1, 0).iova_len

\* the padding the first loop added on account of segment i
PadBefore(i) == FirstPass.sg[i - 1].length - Rounded(last.sg_in[i - 1])

\* the power-of-two round-up of segment i's granule-rounded length
PowerOfTwoOf(i) == roundup_pow_of_two(Rounded(last.sg_in[i]))

RECURSIVE SumOfLengths(_, _)
SumOfLengths(sg, i) ==
    IF i > Len(sg) THEN 0 ELSE sg[i].length + SumOfLengths(sg, i + 1)

\* C32: in the first loop of iommu_dma_map_sg the padding added before
\* segment i > 1 is (-running total) mod P, with P the power-of-two round-up
\* of the segment's granule-rounded length: it is at least 0 and less than P,
\* it is 0 when the running total is a multiple of P, it brings the running
\* total to a multiple of P, and at the end the total length is the sum of
\* the transformed lengths of the segments
C32_PaddingIsNegatedTotalModP ==
    last.op = "map_sg" =>
      /\ \A i \in 2 .. Len(last.sg_in) :
           /\ PadBefore(i) = (PowerOfTwoOf(i) - (RunningTotal(i) % PowerOfTwoOf(i)))
                               % PowerOfTwoOf(i)
           /\ 0 <= PadBefore(i) /\ PadBefore(i) < PowerOfTwoOf(i)
           /\ RunningTotal(i) % PowerOfTwoOf(i) = 0 => PadBefore(i) = 0
           /\ (RunningTotal(i) + PadBefore(i)) % PowerOfTwoOf(i) = 0
      /\ FirstPass.iova_len = SumOfLengths(FirstPass.sg, 1)
      /\ last.alloc_size = FirstPass.iova_len

\* the first loop ran over a list whose second segment needed padding before
\* it
C32_Witness ==
    /\ last.op = "map_sg"
    /\ Len(last.sg_in) = 2
    /\ RunningTotal(2) % PowerOfTwoOf(2) # 0
    /\ PadBefore(2) > 0
    /\ last.alloc_size = Rounded(last.sg_in[1]) + PadBefore(2) + Rounded(last.sg_in[2])

\* ---------------------------------------------------------------------------
\* C33
\* ---------------------------------------------------------------------------

\* the first device address of segment i of the mapped list, and the first
\* after it
DevStart(i) == last.sg_out[i].dma_address
DevEnd(i) == last.sg_out[i].dma_address + last.sg_in[i].length

UnmapFoundNothing ==
    /\ last.op \in {"unmap_page", "unmap_sg"}
    /\ last.stage = "not_found"

\* every device address
DeviceAddresses == 0 .. AddrSpace - 1

\* C34: an iommu_dma_unmap_page or iommu_dma_unmap_sg of a device address for
\* which find_iova finds no interval uninstalls no translation and leaves the
\* allocator as it was; one of the address the unmap just before it was given
\* finds no interval; and in every state __iommu_dma_unmap, which
\* iommu_dma_free calls too, changes nothing for any address find_iova has no
\* interval for
C34_UnknownAddressChangesNothing ==
    /\ UnmapFoundNothing => (iovad.rbroot = last.pre /\ pgtable = last.pre_pt)
    /\ (last.op \in {"unmap_page", "unmap_sg"} /\ last.again) =>
         /\ last.stage = "not_found"
         /\ iovad.rbroot = last.pre
         /\ pgtable = last.pre_pt
    /\ Attached =>
         \A a \in DeviceAddresses :
           find_iova(iovad, iova_pfn(iovad, a)) = NoIova =>
             /\ ~unmap_of_address(a).found
             /\ unmap_of_address(a).iovad = iovad
             /\ unmap_of_address(a).pgtable = pgtable

\* a region was mapped and unmapped and its address unmapped once more, while
\* another mapping is in place
C34_Witness ==
    /\ last.op = "unmap_page"
    /\ last.again
    /\ last.prev.op = "unmap_page"
    /\ last.prev.pre # last.pre
    /\ last.handle \notin StrayHandles
    /\ pgtable # {}
    /\ iovad.rbroot # {}

\* ---------------------------------------------------------------------------
\* C35
\* ---------------------------------------------------------------------------

\* the domain has an MSI cookie
MsiOnly == cookie.type = "IOMMU_DMA_MSI_COOKIE"

\* the cursor of an MSI cookie is its base plus a page for every cache entry,
\* entry k from the end of the list (the k-th inserted) sits k - 1 pages above
\* the base, and no two entries share a byte of device address
CursorAccountsForEntries ==
    MsiOnly =>
      \E base \in MsiBases :
        LET list == cookie.msi_page_list
            n == Len(list)
        IN /\ cookie.msi_iova = base + PAGE_SIZE * n
           /\ \A i \in 1 .. n : list[i].iova = base + PAGE_SIZE * (n - i)
           /\ \A i, j \in 1 .. n :
                i # j => \/ list[i].iova + PAGE_SIZE <= list[j].iova
                         \/ list[j].iova + PAGE_SIZE <= list[i].iova

\* C35: on an MSI cookie created with base B, a cache miss that succeeds gives
\* the new entry the cursor's value and moves the cursor up by PAGE_SIZE;
\* after every call the cursor is B + PAGE_SIZE * (number of cache entries),
\* it is never lower than before the call, and the entries lie on distinct
\* pages of device address
C35_CursorIsBumpAllocator ==
    [][ /\ CursorAccountsForEntries'
        /\ (MsiOnly /\ cookie'.type = cookie.type) =>
             /\ cookie'.msi_iova >= cookie.msi_iova
             /\ cookie'.msi_page_list # cookie.msi_page_list =>
                  /\ last'.op = "map_msi_msg" /\ last'.ok /\ last'.stage = "none"
                  /\ cookie'.msi_page_list =
                       <<[iova |-> cookie.msi_iova,
                          phys |-> msi_addr_mask(last'.phys, PAGE_SIZE)]>>
                         \o cookie.msi_page_list
                  /\ last'.handle = cookie.msi_iova
                  /\ cookie'.msi_iova = cookie.msi_iova + PAGE_SIZE
             /\ cookie'.msi_page_list = cookie.msi_page_list =>
                  cookie'.msi_iova = cookie.msi_iova ]_vars

\* an MSI cookie has handed out two doorbell pages, and the last call was
\* served from the cache
C35_Witness ==
    /\ MsiOnly
    /\ Len(cookie.msi_page_list) = 2
    /\ cookie.msi_iova = cookie.msi_page_list[2].iova + 2 * PAGE_SIZE
    /\ last.op = "map_msi_msg" /\ last.stage = "hit"

\* ---------------------------------------------------------------------------
\* C36
\* ---------------------------------------------------------------------------

\* the translations installed for the device addresses [iova, iova + size)
InstalledAt(iova, size) ==
    { t \in pgtable : iova <= t.iova /\ t.iova < iova + size }

\* every cache entry is for a physical address aligned to the cookie's
\* doorbell granule and is backed by a translation of one such granule, from
\* the entry's device address to its physical address, installed with
\* IOMMU_WRITE | IOMMU_NOEXEC | IOMMU_MMIO
DoorbellsBacked ==
    LET size == cookie_msi_granule(cookie, iovad)
        list == cookie.msi_page_list
    IN \A i \in 1 .. Len(list) :
         /\ size > 0
         /\ list[i].phys % size = 0
         /\ list[i].iova % size = 0
         /\ InstalledAt(list[i].iova, size)
              = NewEntries(list[i].iova, list[i].phys, size,
                           {"IOMMU_WRITE", "IOMMU_NOEXEC", "IOMMU_MMIO"})
         /\ Cardinality(InstalledAt(list[i].iova, size)) * min_pagesz = size

\* list a is the end of list b
IsTailOf(a, b) ==
    /\ Len(a) <= Len(b)
    /\ a = SubSeq(b, Len(b) - Len(a) + 1, Len(b))

\* C36: every doorbell cache entry has a physical address aligned to the
\* cookie's doorbell granule (the allocator's granule with an IOVA cookie,
\* PAGE_SIZE with an MSI cookie) and is backed by a translation of exactly one
\* granule with write-only, no-execute, device-memory protection; and until
\* the cookie is released an entry stays in the cache as it was inserted
C36_DoorbellEntriesStable ==
    [][ /\ DoorbellsBacked'
        /\ last'.op # "put_dma_cookie" =>
             IsTailOf(cookie.msi_page_list, cookie'.msi_page_list) ]_vars

\* an IOVA cookie of granule 2 caches two doorbells, the second for an address
\* that is not aligned to the granule
C36_Witness ==
    /\ cookie.type = "IOMMU_DMA_IOVA_COOKIE"
    /\ iovad.granule = 2
    /\ Len(cookie.msi_page_list) = 2
    /\ last.op = "map_msi_msg" /\ last.stage = "none"
    /\ last.phys % 2 = 1
    /\ cookie.msi_page_list[1].phys = last.phys - 1

\* ---------------------------------------------------------------------------
\* C37
\* ---------------------------------------------------------------------------

\* the intervals the allocator holds that were handed out by alloc_iova
AllocatedIntervals == { n \in iovad.rbroot : ~InWindow(n) }

\* C37: after iommu_dma_init_domain has succeeded, whatever base it was given,
\* 0 included, the first page the allocator may hand out is page 1 or higher,
\* and no interval handed out by the allocator holds device address 0
C37_PageZeroNeverAllocated ==
    /\ (last.op = "init_domain" /\ last.ret = 0) => iovad.start_pfn >= 1
    /\ Attached => iovad.start_pfn >= 1
    /\ (last.op = "alloc_iova" /\ last.ok) =>
         /\ last.iova.pfn_lo >= 1
         /\ iova_dma_addr(iovad, last.iova) > 0
    /\ \A n \in AllocatedIntervals : n.pfn_lo >= 1
    /\ \A h \in held : h.handle # 0

\* a domain initialised with base 0 has handed out its first page, page 1
C37_Witness ==
    /\ last.op = "alloc_iova" /\ last.ok
    /\ iovad.start_pfn = 1
    /\ last.iova.pfn_lo = 1
    /\ last.iova \in iovad.rbroot

\* ---------------------------------------------------------------------------
\* C38
\* ---------------------------------------------------------------------------

\* the range [base, base + size) of the last iommu_dma_init_domain has no
\* byte in the aperture
OutsideAperture ==
    \/ last.phys > domain.aperture_end
    \/ last.phys + last.size <= domain.aperture_start

\* the last byte of an interval
LastByte(iova) == (iova.pfn_hi + 1) * iovad.granule - 1

\* C38: on a domain that forces its aperture and has an IOVA cookie,
\* iommu_dma_init_domain returns -EFAULT and changes nothing when the range
\* it is given lies outside the aperture; when it succeeds the allocator's
\* first and last page are those of the range clamped to the aperture; and
\* every interval the allocator hands out ends at or below the smaller of the
\* caller's limit and the end of the aperture
C38_ApertureClamps ==
    LET order == __ffs(domain.pgsize_bitmap)
    IN /\ ( /\ last.op = "init_domain"
            /\ domain.force_aperture
            /\ cookie.type = "IOMMU_DMA_IOVA_COOKIE" ) =>
            /\ OutsideAperture => (last.ret = -EFAULT /\ iovad = last.pre_iovad)
            /\ last.ret # 0 => iovad = last.pre_iovad
            /\ (~OutsideAperture /\ last.ret # 0) =>
                 (last.ret = -EFAULT /\ last.pre_iovad.start_pfn # 0)
            /\ last.ret = 0 =>
                 /\ ~OutsideAperture
                 /\ iovad.start_pfn =
                      Max(Max(1, last.phys \div 2 ^ order),
                          domain.aperture_start \div 2 ^ order)
                 /\ iovad.dma_32bit_pfn =
                      Min((last.phys + last.size - 1) \div 2 ^ order,
                          domain.aperture_end \div 2 ^ order)
                 /\ iovad.start_pfn * 2 ^ order >= domain.aperture_start
                 /\ (iovad.dma_32bit_pfn + 1) * 2 ^ order - 1 <= domain.aperture_end
       /\ (last.op = "alloc_iova" /\ last.ok) =>
            /\ LastByte(last.iova) <= last.dma_limit
            /\ domain.force_aperture =>
                 /\ LastByte(last.iova) <= Min(last.dma_limit, domain.aperture_end)
                 /\ last.iova.pfn_hi
                      <= Min(last.dma_limit, domain.aperture_end) \div 2 ^ order

\* with the aperture forced and a limit beyond its end, an interval was handed
\* out that ends with the aperture
C38_Witness ==
    /\ last.op = "alloc_iova" /\ last.ok
    /\ domain.force_aperture
    /\ last.dma_limit > domain.aperture_end
    /\ LastByte(last.iova) = domain.aperture_end

\* ---------------------------------------------------------------------------
\* C39
\* ---------------------------------------------------------------------------

\* the call is in its while loop
InLoop == thr[1].pc = "loop"

\* C39: the while loop of __iommu_dma_alloc_pages comes to an end: each round
\* either fails the call or takes 1 << order >= 1 off count, never more than
\* count, and fills as many entries of the array; order never goes up from
\* one round to the next; and when the call returns its array, exactly the
\* number of entries asked for has been filled
C39_PageLoopTerminates ==
    /\ [][ InLoop =>
             \/ thr'[1].pc = "failed"
             \/ /\ thr'[1].pc = "done"
                /\ thr[1].count = 0
                /\ Len(thr[1].pages) = thr[1].want
                /\ thr'[1].pages = thr[1].pages
             \/ /\ thr'[1].pc = "loop"
                /\ thr[1].count > 0
                /\ thr[1].count - thr'[1].count = 2 ^ thr'[1].order
                /\ 2 ^ thr'[1].order >= 1
                /\ 2 ^ thr'[1].order <= thr[1].count
                /\ thr'[1].count >= 0
                /\ thr'[1].order <= thr[1].order
                /\ Len(thr'[1].pages) = Len(thr[1].pages) + 2 ^ thr'[1].order
                /\ Len(thr'[1].pages) + thr'[1].count = thr[1].want ]_vars
    /\ (InLoop ~> thr[1].pc \in {"done", "failed"})

\* a call for three pages returned its array after a round at order 1 and a
\* round at order 0
C39_Witness ==
    /\ thr[1].pc = "done"
    /\ thr[1].want = 3
    /\ Len(thr[1].pages) = 3
    /\ thr[1].order = 0
    /\ thr[1].pages[2] = thr[1].pages[1] + 1

\* ---------------------------------------------------------------------------
\* C40
\* ---------------------------------------------------------------------------

\* an iommu_dma_mmap call has returned
Mmapped == thr[1].pc = "mmap"

\* the number of pages of the buffer
PageCount == Len(thr[1].pages)

\* no insertion is to be made: vm_pgoff is at or beyond the page count, or
\* the user area is empty
NothingToInsert ==
    \/ thr[1].vma.vm_pgoff >= PageCount
    \/ thr[1].vma.vm_start >= thr[1].vma.vm_end

\* the insertions to attempt: as many as there are buffer pages from vm_pgoff
\* on and pages in the user area
ToAttempt ==
    IF NothingToInsert THEN 0
    ELSE Min(PageCount - thr[1].vma.vm_pgoff,
             (thr[1].vma.vm_end - thr[1].vma.vm_start) \div PAGE_SIZE)

\* insertion k is of buffer page vm_pgoff + k - 1 at user address
\* vm_start + (k - 1) * PAGE_SIZE
ConsecutiveFromPgoff ==
    \A k \in 1 .. Len(thr[1].tried) :
        /\ thr[1].tried[k].index = thr[1].vma.vm_pgoff + k - 1
        /\ thr[1].tried[k].page = thr[1].pages[thr[1].vma.vm_pgoff + k]
        /\ thr[1].tried[k].uaddr = thr[1].vma.vm_start + (k - 1) * PAGE_SIZE

\* every insertion but the last one made succeeded
StopsAtFirstError ==
    \A k \in 1 .. Len(thr[1].tried) - 1 : thr[1].tried[k].ret = 0

\* the value to return
MmapReturns ==
    IF Len(thr[1].tried) = 0 THEN thr[1].ret = 0 - ENXIO
    ELSE /\ thr[1].ret = thr[1].tried[Len(thr[1].tried)].ret
         /\ thr[1].ret # 0 => Len(thr[1].tried) <= ToAttempt
         /\ thr[1].ret = 0 => Len(thr[1].tried) = ToAttempt

\* C40: iommu_dma_mmap inserts the buffer's pages from index vm_pgoff on at
\* consecutive page-sized user addresses from vm_start, up to the end of the
\* buffer or of the user area; it returns 0 when every insertion attempted
\* succeeded and there was one, the first insertion error otherwise, and
\* -ENXIO, with nothing inserted, when vm_pgoff is at or beyond the page count
\* or the user area is empty
C40_MmapInsertsFromPgoff ==
    Mmapped =>
        /\ NothingToInsert => Len(thr[1].tried) = 0
        /\ ConsecutiveFromPgoff
        /\ StopsAtFirstError
        /\ MmapReturns

============================================================================
